---- MODULE Spec2Model ----
(***************************************************************************)
(* Guest booking backend (backend/app.py): the free-slot availability      *)
(* resolver, the fixed-slot seat assignment and the two booking handlers   *)
(* create_choice_reservation and create_reservation, over the hacomono     *)
(* adapter seen as the system of record.                                   *)
(*                                                                         *)
(* Times are minutes of the booked day on the JST wall clock.  An          *)
(* upstream ISO-8601 string is a record [t, off]: t is the wall-clock      *)
(* minute written in the string and off the UTC offset written after it    *)
(* (0 for "Z" or "+00:00", 540 for "+09:00").  A missing or empty string   *)
(* is NoStamp.  Ids are positive integers, 0 stands for None.              *)
(***************************************************************************)
EXTENDS Integers, Sequences, FiniteSets, TLC

\* ------------------------------------------------------------------ bounds
MaxShifts == 2
MaxTasks == 3
MaxCommits == 1
MaxTicks == 1

\* --------------------------------------------------------- program constants
JST_OFFSET == 540
FIXED_SLOT_BEFORE_INTERVAL_MINUTES == 30
FIXED_SLOT_AFTER_INTERVAL_MINUTES == 30
CHOICE_SCHEDULE_CACHE_TTL_SECONDS == 900
CHOICE_SCHEDULE_RANGE_CACHE_TTL_SECONDS == 900
INSTRUCTOR_CACHE_TTL_SECONDS == 60
RESOURCES_CACHE_TTL_SECONDS == 300
STUDIOS_CACHE_TTL_SECONDS == 600
PROGRAMS_CACHE_TTL_SECONDS == 300
STUDIO_ROOMS_CACHE_TTL_SECONDS == 300

Instructors == {1, 2}
Studios == {1, 2}

\* ------------------------------------------------------------- time stamps
NoStamp == [t |-> -1, off |-> 0]

HasStamp(s) == s.t >= 0

\* datetime.fromisoformat(s.replace("Z", "+00:00")).astimezone(jst)
ToJST(s) == s.t - s.off + JST_OFFSET

\* The string upstream writes for JST minute m when it renders times at offset off.
Stamp(m, off) == [t |-> m - JST_OFFSET + off, off |-> off]

\* str.upper() on the reservation_type / entity_type strings that occur
Upper(s) ==
    CASE s = "break" -> "BREAK"
      [] s = "instructor" -> "INSTRUCTOR"
      [] OTHER -> s

Range(f) == {f[k] : k \in DOMAIN f}

\* ---------------------------------------------------- availability resolver
NoRestriction == [restricted |-> FALSE, ids |-> {}]

\* selectable_instructor_ids: None (NoRestriction) or the allow-list of the
\* first selectable_instructor_details entry
SelectableInstructorIds_DropRandomSelected(program) ==
    LET details == program.selectable_instructor_details IN
    IF details = <<>> THEN NoRestriction
    ELSE IF details[1].type \in {"SELECTED", "FIXED"}
         THEN [restricted |-> TRUE, ids |-> Range(details[1].items) \ {0}]
         ELSE NoRestriction

SelectableInstructorIds(program) ==
    LET details == program.selectable_instructor_details IN
    IF details = <<>> THEN NoRestriction
    ELSE LET first_detail == details[1] IN
         IF first_detail.type \in {"SELECTED", "FIXED", "RANDOM_SELECTED"}
         THEN [restricted |-> TRUE, ids |-> Range(first_detail.items) \ {0}]
         ELSE NoRestriction

\* One shift slot (break block) as the entry appended to reserved_instructors
SlotBlock(slot) ==
    [entity_id |-> slot.entity_id, start_at |-> slot.start_at,
     end_at |-> slot.end_at, reservation_type |-> "SHIFT_SLOT"]

\* The try block around client.get_shift_slots: instructor slots are appended
\* to the reserved_instructors list; a failed fetch leaves the list as it is.
MergeShiftSlots(reserved_instructors, slots_resp) ==
    IF slots_resp.ok
    THEN reserved_instructors \o
         [k \in 1..Len(SelectSeq(slots_resp.list,
                                 LAMBDA s : Upper(s.entity_type) = "INSTRUCTOR")) |->
             SlotBlock(SelectSeq(slots_resp.list,
                                 LAMBDA s : Upper(s.entity_type) = "INSTRUCTOR")[k])]
    ELSE reserved_instructors

IsBlockType(reservation_type) ==
    Upper(reservation_type) \in {"BREAK", "BLOCK", "REST", "SHIFT_SLOT"}

\* Whether one reserved entry blocks the proposed window
BlocksWindow_NoBuffer(reserved, start_datetime, proposed_end, before_interval, after_interval) ==
    /\ HasStamp(reserved.start_at) /\ HasStamp(reserved.end_at)
    /\ start_datetime < ToJST(reserved.end_at)
    /\ proposed_end > ToJST(reserved.start_at)

BlocksWindow(reserved, start_datetime, proposed_end, before_interval, after_interval) ==
    /\ HasStamp(reserved.start_at) /\ HasStamp(reserved.end_at)
    /\ LET reserved_start == ToJST(reserved.start_at)
           reserved_end == ToJST(reserved.end_at)
           is_block == IsBlockType(reserved.reservation_type)
           block_start == IF is_block THEN reserved_start
                          ELSE reserved_start - before_interval
           block_end == IF is_block THEN reserved_end
                        ELSE reserved_end + after_interval
       IN start_datetime < block_end /\ proposed_end > block_start

ReservedInstructorIds(reserved_instructors, start_datetime, proposed_end, before_interval, after_interval) ==
    {reserved_instructors[k].entity_id : k \in
        {j \in DOMAIN reserved_instructors :
            BlocksWindow(reserved_instructors[j], start_datetime, proposed_end,
                         before_interval, after_interval)}}

\* The location test on one instructor: TRUE means "skip"
NotAtStudio(instructor_studio_ids, studio_id) ==
    /\ instructor_studio_ids # {}
    /\ studio_id # 0
    /\ studio_id \notin instructor_studio_ids

\* The shift test on one shift entry
ShiftCovers_StartOnly(instructor, start_datetime, proposed_end) ==
    /\ HasStamp(instructor.start_at) /\ HasStamp(instructor.end_at)
    /\ ToJST(instructor.start_at) <= start_datetime
    /\ start_datetime < ToJST(instructor.end_at)

ShiftCovers(instructor, start_datetime, proposed_end) ==
    /\ HasStamp(instructor.start_at) /\ HasStamp(instructor.end_at)
    /\ ToJST(instructor.start_at) <= start_datetime
    /\ proposed_end <= ToJST(instructor.end_at)

Reverse(s) == [k \in 1..Len(s) |-> s[Len(s) + 1 - k]]

Ids(shifts) == [k \in 1..Len(shifts) |-> shifts[k].instructor_id]

AvailableInstructors_Reversed(shift_instructors, selectable, instructor_studio_map, studio_id, start_datetime, proposed_end, reserved_instructor_ids) ==
    Reverse(Ids(SelectSeq(shift_instructors, LAMBDA instructor :
        /\ ~(selectable.restricted /\ instructor.instructor_id \notin selectable.ids)
        /\ ~NotAtStudio(instructor_studio_map[instructor.instructor_id], studio_id)
        /\ ShiftCovers(instructor, start_datetime, proposed_end)
        /\ instructor.instructor_id \notin reserved_instructor_ids)))

\* available_instructors: the ids of the shift entries that pass, in list order
AvailableInstructors(shift_instructors, selectable, instructor_studio_map, studio_id, start_datetime, proposed_end, reserved_instructor_ids) ==
    Ids(SelectSeq(shift_instructors, LAMBDA instructor :
        /\ ~(selectable.restricted /\ instructor.instructor_id \notin selectable.ids)
        /\ ~NotAtStudio(instructor_studio_map[instructor.instructor_id], studio_id)
        /\ ShiftCovers(instructor, start_datetime, proposed_end)
        /\ instructor.instructor_id \notin reserved_instructor_ids))

\* instructor_ids = available_instructors[:1]
FirstFit(available_instructors) ==
    IF available_instructors = <<>> THEN <<>> ELSE <<available_instructors[1]>>

\* ------------------------------------------------------------------ caches
EmptySchedule ==
    [studio_id |-> 0, shift_instructor |-> <<>>,
     reservation_assign_instructor |-> <<>>, reservation_assign_resource |-> <<>>]

NoScheduleCache == [has |-> FALSE, data |-> EmptySchedule]

EmptyStudioMap == [i \in Instructors |-> {}]

NoMapCache == [has |-> FALSE, data |-> EmptyStudioMap]

\* A cache key's value with its fetch time, and the same without the time
NoEntry == [has |-> FALSE, data |-> "", time |-> 0]

Entry(data, time) == [has |-> TRUE, data |-> data, time |-> time]

Timed(cache, time) == [has |-> cache.has, data |-> cache.data, time |-> time]

Untimed(entry) == [has |-> entry.has, data |-> entry.data]

\* What a get returns: the value or the exception, the cache entry afterwards,
\* and whether the upstream was asked
Got(raised, value, cache, fetched) ==
    [raised |-> raised, value |-> value, cache |-> cache, fetched |-> fetched]

\* get_cached_choice_schedule for one (room, date) key, on the entry with its
\* time: a fresh entry is returned, else the fetched schedule is stored and
\* returned, else the stale entry is returned, else the exception is raised again
get_cached_choice_schedule_Empty(cache, now, resp, empty) ==
    IF cache.has /\ now - cache.time < CHOICE_SCHEDULE_CACHE_TTL_SECONDS
    THEN Got(FALSE, cache.data, cache, FALSE)
    ELSE IF resp.ok THEN Got(FALSE, resp.data, Entry(resp.data, now), TRUE)
    ELSE IF cache.has THEN Got(FALSE, cache.data, cache, TRUE)
    ELSE Got(FALSE, empty, cache, TRUE)

get_cached_choice_schedule(cache, now, resp, empty) ==
    IF cache.has /\ now - cache.time < CHOICE_SCHEDULE_CACHE_TTL_SECONDS
    THEN Got(FALSE, cache.data, cache, FALSE)
    ELSE IF resp.ok THEN Got(FALSE, resp.data, Entry(resp.data, now), TRUE)
    ELSE IF cache.has THEN Got(FALSE, cache.data, cache, TRUE)
    ELSE Got(TRUE, empty, cache, TRUE)

\* The same for a read that is given the entry's age: the value returned is the
\* cached object itself.  age is (now - cached_time).total_seconds().
GetCachedChoiceSchedule(cache, age, resp) ==
    LET got == get_cached_choice_schedule(Timed(cache, 0), age, resp, EmptySchedule)
    IN [got EXCEPT !.cache = Untimed(@)]

MaxRetries == 3

\* get_cached_instructor_studio_map: up to max_retries fetches, then the stale
\* cache, then the empty map.  resp.attempts[k] is whether attempt k succeeds.
get_cached_instructor_studio_map(cache, now, resp, empty) ==
    IF cache.has /\ now - cache.time < INSTRUCTOR_CACHE_TTL_SECONDS
    THEN Got(FALSE, cache.data, cache, FALSE)
    ELSE IF \E attempt \in 1..MaxRetries : resp.attempts[attempt]
    THEN Got(FALSE, resp.data, Entry(resp.data, now), TRUE)
    ELSE IF cache.has THEN Got(FALSE, cache.data, cache, TRUE)
    ELSE Got(FALSE, empty, cache, TRUE)

GetCachedInstructorStudioMap(cache, age, resp) ==
    LET got == get_cached_instructor_studio_map(Timed(cache, 0), age, resp,
                                                EmptyStudioMap)
    IN [value |-> got.value, cache |-> Untimed(got.cache), fetched |-> got.fetched]

\* get_cached_studios, get_cached_programs, get_cached_studio_rooms and
\* get_cached_resources: a fresh entry, else the fetched list stored, else the
\* stale entry, else the empty list or map
GetCachedOrEmpty_Inclusive(ttl, cache, now, resp, empty) ==
    IF cache.has /\ now - cache.time <= ttl
    THEN Got(FALSE, cache.data, cache, FALSE)
    ELSE IF resp.ok THEN Got(FALSE, resp.data, Entry(resp.data, now), TRUE)
    ELSE IF cache.has THEN Got(FALSE, cache.data, cache, TRUE)
    ELSE Got(FALSE, empty, cache, TRUE)

GetCachedOrEmpty(ttl, cache, now, resp, empty) ==
    IF cache.has /\ now - cache.time < ttl
    THEN Got(FALSE, cache.data, cache, FALSE)
    ELSE IF resp.ok THEN Got(FALSE, resp.data, Entry(resp.data, now), TRUE)
    ELSE IF cache.has THEN Got(FALSE, cache.data, cache, TRUE)
    ELSE Got(FALSE, empty, cache, TRUE)

get_cached_studios(cache, now, resp, empty) ==
    GetCachedOrEmpty(STUDIOS_CACHE_TTL_SECONDS, cache, now, resp, empty)

get_cached_programs(cache, now, resp, empty) ==
    GetCachedOrEmpty(PROGRAMS_CACHE_TTL_SECONDS, cache, now, resp, empty)

get_cached_studio_rooms(cache, now, resp, empty) ==
    GetCachedOrEmpty(STUDIO_ROOMS_CACHE_TTL_SECONDS, cache, now, resp, empty)

get_cached_resources(cache, now, resp, empty) ==
    GetCachedOrEmpty(RESOURCES_CACHE_TTL_SECONDS, cache, now, resp, empty)

\* Step 4 of create_choice_reservation from the cached read to available_instructors.
\* io carries what the adapter answers and the cache ages at this moment.  The
\* slots are appended to the list object held by the cache, so the cache changes.
ResolveInstructors(program, start_datetime, schedule_cache, map_cache, io) ==
    LET got == GetCachedChoiceSchedule(schedule_cache, io.schedule_age, io.schedule_resp)
        schedule == got.value
        studio_id == schedule.studio_id
        gotmap == GetCachedInstructorStudioMap(map_cache, io.map_age, io.map_resp)
        reserved_instructors ==
            MergeShiftSlots(schedule.reservation_assign_instructor, io.slots_resp)
        proposed_end == start_datetime + program.service_minutes
        reserved_instructor_ids ==
            ReservedInstructorIds(reserved_instructors, start_datetime, proposed_end,
                                  program.before_interval_minutes,
                                  program.after_interval_minutes)
    IN IF got.raised
       THEN [raised |-> TRUE, available |-> <<>>, schedule |-> EmptySchedule,
             schedule_fetched |-> TRUE, map_fetched |-> FALSE,
             schedule_cache |-> schedule_cache, map_cache |-> map_cache]
       ELSE [raised |-> FALSE,
             schedule |-> [schedule EXCEPT !.reservation_assign_instructor =
                                             reserved_instructors],
             schedule_fetched |-> got.fetched, map_fetched |-> gotmap.fetched,
             available |->
                 AvailableInstructors(schedule.shift_instructor,
                                      SelectableInstructorIds(program),
                                      gotmap.value, studio_id, start_datetime,
                                      proposed_end, reserved_instructor_ids),
             schedule_cache |->
                 [has |-> TRUE,
                  data |-> [schedule EXCEPT !.reservation_assign_instructor =
                                              reserved_instructors]],
             map_cache |-> gotmap.cache]

\* ------------------------------------------------------------------- state
VARIABLES
    master,                        \* upstream master data: program, shift slots, lessons, staff
    sor,                           \* the system of record: schedule, members, tickets, reservations
    choice_schedule_cache,         \* _choice_schedule_cache[room:date]
    instructor_studio_map_cache,   \* _instructor_studio_map_cache
    env,                           \* resolver runs: the request and what the adapter answers
    runs,                          \* resolver runs: the results so far
    req,                           \* the booking request being handled (request.get_json())
    pc,                            \* the handler's position
    loc,                           \* the handler's local variables
    calls,                         \* the adapter calls the handler has issued, in order
    resp,                          \* the response returned for the last request
    served,                        \* number of booking requests received
    refresh_pending,               \* refresh_cache_background threads started and not yet run
    probe,                         \* the arguments of a function called on its own
    verdict,                       \* what that call returned
    access,                        \* the last detail or cancel request and its reply
    store,                         \* what the threads share: the cache dicts, the client, the clock
    workers                        \* the threads: their positions and locals

vars == <<master, sor, choice_schedule_cache, instructor_studio_map_cache, env, runs, req, pc, loc, calls, resp, served, refresh_pending, probe, verdict, access, store, workers>>

\* ------------------------------------------------------------ input domains
SeqsUpTo(S, n) == UNION {[1..k -> S] : k \in 0..n}

MkProgram(minutes, before, after, details) ==
    [service_minutes |-> minutes,
     before_interval_minutes |-> before,
     after_interval_minutes |-> after,
     selectable_instructor_details |-> details,
     selectable_resource_details |-> <<>>,
     is_ticket_reserve_limit |-> FALSE,
     ticket_reserve_limit_details |-> <<>>,
     consumable_ticket_ids |-> <<>>,
     ticket_ids |-> <<>>,
     reservable_ticket_ids |-> <<>>]

StartChoices == {600, 630}
ServiceMinutes == {30, 60}
IntervalMinutes == {0, 30}
Offsets == {0, JST_OFFSET}
ShiftWindows == {<<600, 660>>, <<630, 720>>}
ReservedWindows == {<<570, 600>>, <<600, 630>>, <<660, 690>>}
SlotWindows == {<<570, 600>>, <<600, 630>>}
LessonWindows == {<<660, 690>>}

MkShift(i, w, off) ==
    [instructor_id |-> i, start_at |-> Stamp(w[1], off), end_at |-> Stamp(w[2], off)]

ShiftLists(off) ==
    SeqsUpTo({MkShift(i, w, off) : i \in Instructors, w \in ShiftWindows}, MaxShifts)

\* shift entries that carry no end time
OpenShiftLists(off) ==
    {<<[MkShift(1, <<600, 660>>, off) EXCEPT !.end_at = NoStamp]>>,
     <<[MkShift(1, <<600, 660>>, off) EXCEPT !.end_at = NoStamp],
       MkShift(2, <<600, 660>>, off)>>}

MkBlock(i, w, type, off) ==
    [entity_id |-> i, start_at |-> Stamp(w[1], off), end_at |-> Stamp(w[2], off),
     reservation_type |-> type]

ReservedLists(off, types) ==
    {<<>>}
    \cup {<<MkBlock(i, w, type, off)>> :
             i \in Instructors, w \in ReservedWindows, type \in types}
    \cup {<<[MkBlock(1, <<600, 630>>, "RESERVE", off) EXCEPT !.end_at = NoStamp]>>}

MkSlot(kind, i, w, off) ==
    [entity_type |-> kind, entity_id |-> i,
     start_at |-> Stamp(w[1], off), end_at |-> Stamp(w[2], off)]

SlotLists(off) ==
    {<<>>, <<MkSlot("RESOURCE", 1, <<600, 630>>, off)>>}
    \cup {<<MkSlot("INSTRUCTOR", 1, w, off)>> : w \in SlotWindows}
    \cup {<<MkSlot("instructor", 2, w, off)>> : w \in SlotWindows}

MkLesson(i, w, off) ==
    [instructor_id |-> i, start_at |-> Stamp(w[1], off), end_at |-> Stamp(w[2], off)]

LessonLists(off) ==
    {<<>>} \cup {<<MkLesson(i, w, off)>> : i \in Instructors, w \in LessonWindows}

SelectionChoices ==
    {<<>>,
     <<[type |-> "ALL", items |-> <<1>>]>>,
     <<[type |-> "RANDOM_ALL", items |-> <<>>]>>,
     <<[type |-> "SELECTED", items |-> <<>>]>>,
     <<[type |-> "SELECTED", items |-> <<1>>]>>,
     <<[type |-> "FIXED", items |-> <<2, 0>>]>>,
     <<[type |-> "RANDOM_SELECTED", items |-> <<2>>]>>,
     <<[type |-> "RANDOM_SELECTED", items |-> <<1, 2>>]>>}

StudioIdChoices == {{}, {1}, {2}}
AttemptChoices == {<<TRUE, TRUE, TRUE>>, <<FALSE, FALSE, TRUE>>, <<FALSE, FALSE, FALSE>>}

\* The fixed-slot lesson of the model and the seats of its space
DefaultStudioLesson ==
    [start_at |-> Stamp(720, JST_OFFSET), program_id |-> 1, studio_room_space_id |-> 1]

MkSeat(no, no_label) == [no |-> no, no_label |-> no_label]

DefaultSpaceDetails == <<MkSeat("1", "A"), MkSeat("2", "B"), MkSeat("3", "C")>>

MkMaster(program, shift_slots, lessons, studio_ids) ==
    [program |-> program, shift_slots |-> shift_slots, lessons |-> lessons,
     studio_ids |-> studio_ids, room_studio |-> 1,
     studio_lesson |-> DefaultStudioLesson, space_details |-> DefaultSpaceDetails]

MkSchedule(studio_id, shifts, reserved) ==
    [studio_id |-> studio_id, shift_instructor |-> shifts,
     reservation_assign_instructor |-> reserved,
     reservation_assign_resource |-> <<>>]

\* ---------------------------------- generate_verification_hash and verify_hash
\* Texts are sequences of characters
VERIFICATION_SALT == <<"s">>

\* str.lower()
Lower(text) ==
    [k \in DOMAIN text |-> IF text[k] = "A" THEN "a" ELSE IF text[k] = "B" THEN "b" ELSE text[k]]

\* str.strip(): the text without its leading and trailing blanks
RECURSIVE Strip(_)
Strip(text) ==
    IF text = <<>> THEN text
    ELSE IF Head(text) = " " THEN Strip(Tail(text))
    ELSE IF text[Len(text)] = " " THEN Strip(SubSeq(text, 1, Len(text) - 1))
    ELSE text

\* str.replace(ch, "")
RECURSIVE Remove(_, _)
Remove(text, ch) ==
    IF text = <<>> THEN text
    ELSE IF Head(text) = ch THEN Remove(Tail(text), ch)
    ELSE <<Head(text)>> \o Remove(Tail(text), ch)

\* hashlib.sha256(data).hexdigest()[:16], taken as free of collisions
Sha256Prefix(data) == [digest_of |-> data]

generate_verification_hash_Raw(email, phone) ==
    Sha256Prefix(email \o <<":">> \o phone \o <<":">> \o VERIFICATION_SALT)

generate_verification_hash(email, phone) ==
    LET normalized_email == Strip(Lower(email))
        normalized_phone == Strip(Remove(Remove(phone, "-"), " "))
    IN Sha256Prefix(normalized_email \o <<":">> \o normalized_phone
                      \o <<":">> \o VERIFICATION_SALT)

verify_hash_Always(email, phone, provided_hash) == TRUE

verify_hash(email, phone, provided_hash) ==
    generate_verification_hash(email, phone) = provided_hash

Emails == {"a@example.com", "A@example.com", "b@example.com"}

\* email.lower().strip() on the addresses that occur
NormalizeEmail(email) == IF email = "A@example.com" THEN "a@example.com" ELSE email

\* The characters of an address, for the token functions
EmailText(email) ==
    CASE email = "a@example.com" -> <<"a">>
      [] email = "A@example.com" -> <<"A">>
      [] email = "b@example.com" -> <<"b">>
      [] OTHER -> <<>>

\* The phone number the booking requests carry
GuestPhone == <<"1", "2">>

\* Registered members: the member id per mail address, 0 when there is none
InitialMembers == [e \in Emails |-> IF e = "a@example.com" THEN 1 ELSE 0]

\* The "tel" stored with the account of a mail address
MkTels(tel) == [e \in Emails |-> IF e = "a@example.com" THEN tel ELSE <<>>]

MkSor(schedule) ==
    [schedule |-> schedule, members |-> InitialMembers, tels |-> MkTels(GuestPhone),
     member_tickets |-> <<>>, reservations |-> <<>>, lesson_reservations |-> <<>>]

MkEnv(start_at, slots_ok, attempts) ==
    [start_at |-> start_at, slots_ok |-> slots_ok, attempts |-> attempts]

\* --------------------------------------------- requests, locals, responses
NoRequest ==
    [mode |-> "none", guest_email |-> "", guest_phone |-> <<>>,
     start_at |-> [t |-> 0, fmt |-> "ms"],
     instructor_ids |-> <<>>, space_no |-> "", now |-> 0]

NoMessage == [kind |-> "none", text |-> ""]

\* No reservation, and no token
NoReservationId == [kind |-> "", k |-> 0]

NoToken == [digest_of |-> <<>>]

NoResponse ==
    [status |-> 0, success |-> FALSE, error |-> "", error_code |-> "", message |-> NoMessage,
     reservation_id |-> NoReservationId, member_id |-> 0, verify |-> NoToken]

\* ------------------------------------------------ the shared schedule cache
\* The threads of the worker pool
Workers == {1, 2}

\* What one cache dict holds under a key: nothing, or the value or time that
\* one fetch wrote
NoCell == [has |-> FALSE, data |-> 0, fetch |-> 0]

Cell(data, fetch) == [has |-> TRUE, data |-> data, fetch |-> fetch]

\* The four dicts under the booked room and date and the range that covers
\* it, the number of commits the upstream holds, the clock, the number of
\* fetches and of requests so far, and the last commit whose cache step ended
InitStore ==
    [schedule_cache |-> NoCell, schedule_cache_time |-> NoCell,
     range_cache |-> NoCell, range_cache_time |-> NoCell,
     upstream |-> 0, clock |-> 0, fetches |-> 0, started |-> 0, settled |-> 0]

IdleWorker ==
    [task |-> "", pc |-> "idle", now |-> 0, cached_data |-> NoCell,
     cached_time |-> NoCell, schedule |-> NoCell, version |-> 0, floor |-> 0,
     result |-> NoCell, raised |-> FALSE]

InitWorkers == [w \in Workers |-> IdleWorker]

\* No detail or cancel request has been made
NoAccess ==
    [op |-> "", reservation_id |-> NoReservationId, member_id |-> 0, verify |-> NoToken,
     status |-> 0, details |-> FALSE, calls |-> <<>>, member_read |-> FALSE,
     forwarded |-> <<>>]

\* No function has been called on its own
NoProbe == [reservation_datetime |-> 0, now |-> 0]

NoVerdict == [is_valid |-> FALSE, error_message |-> NoMessage]

NoReservationData ==
    [member_id |-> 0, ticket_id |-> 0, instructor_ids |-> <<>>,
     start_at |-> [t |-> 0, fmt |-> "ms"], no |-> "", member_ticket_id |-> 0]

\* The arguments of client.grant_ticket_to_member, before the call is made
NoGrantCall == [member_id |-> 0, ticket_id |-> 0, num |-> 0]

\* The handler's locals before its first statement
InitLoc ==
    [member_id |-> 0, lookup_result |-> "", lookup_member_id |-> 0,
     grant_call |-> NoGrantCall, grant_result |-> "",
     member_ticket_id |-> 0, lesson_program_id |-> 0,
     program_read |-> FALSE,
     program |-> MkProgram(30, 0, 0, <<>>), ticket_id_to_grant |-> 0,
     resolved |-> FALSE, available |-> <<>>, schedule |-> EmptySchedule,
     instructor_ids |-> <<>>,
     seats_read |-> FALSE, all_seats |-> <<>>, reserved_seats |-> {},
     space_no |-> "", space_has_valid_no |-> FALSE,
     reservation_data |-> NoReservationData,
     commit_error |-> [codes |-> {}, errors |-> <<>>],
     reservation_id |-> [kind |-> "", k |-> 0]]

\* ----------------------------------------------------------- resolver runs
\* Inputs that exercise reservations and the program's buffers
InitReservations ==
    \E off \in Offsets, start_at \in StartChoices, minutes \in ServiceMinutes,
       before \in IntervalMinutes, after \in IntervalMinutes :
    \E shifts \in ShiftLists(off), reserved \in ReservedLists(off, {"RESERVE", "BREAK"}) :
        /\ master = MkMaster(MkProgram(minutes, before, after, <<>>), <<>>, <<>>,
                             EmptyStudioMap)
        /\ sor = MkSor(MkSchedule(1, shifts, reserved))
        /\ env = MkEnv(start_at, TRUE, <<TRUE, TRUE, TRUE>>)

\* Inputs that exercise break blocks and fixed-slot lessons
InitBlocks ==
    \E start_at \in StartChoices, minutes \in ServiceMinutes, slots_ok \in BOOLEAN :
    \E shifts \in ShiftLists(JST_OFFSET), slots \in SlotLists(JST_OFFSET),
       lessons \in LessonLists(JST_OFFSET),
       reserved \in {<<>>, <<MkBlock(1, <<600, 630>>, "break", JST_OFFSET)>>,
                     <<MkBlock(2, <<570, 600>>, "BREAK", JST_OFFSET)>>} :
        /\ master = MkMaster(MkProgram(minutes, 30, 30, <<>>), slots, lessons,
                             EmptyStudioMap)
        /\ sor = MkSor(MkSchedule(1, shifts, reserved))
        /\ env = MkEnv(start_at, slots_ok, <<TRUE, TRUE, TRUE>>)

\* Inputs that exercise the instructor pool and the location associations
InitPool ==
    \E details \in SelectionChoices, attempts \in AttemptChoices, studio_id \in {0, 1} :
    \E shifts \in ShiftLists(JST_OFFSET) \cup OpenShiftLists(JST_OFFSET),
       studio_ids \in [Instructors -> StudioIdChoices] :
        /\ master = MkMaster(MkProgram(30, 0, 0, details), <<>>, <<>>, studio_ids)
        /\ sor = MkSor(MkSchedule(studio_id, shifts, <<>>))
        /\ env = MkEnv(600, TRUE, attempts)

InitResolver ==
    /\ (InitReservations \/ InitBlocks \/ InitPool)
    /\ choice_schedule_cache = NoScheduleCache
    /\ instructor_studio_map_cache = NoMapCache
    /\ runs = <<>>
    /\ req = NoRequest
    /\ pc = "idle"
    /\ loc = InitLoc
    /\ calls = <<>>
    /\ resp = NoResponse
    /\ served = 0
    /\ refresh_pending = 0
    /\ probe = NoProbe
    /\ verdict = NoVerdict
    /\ access = NoAccess
    /\ store = InitStore
    /\ workers = InitWorkers

\* client.get_shift_slots: the shift slots of the studio and date, or a failure
GetShiftSlots(ok) == [ok |-> ok, list |-> master.shift_slots]

\* What the adapter answers during a resolver run
ResolverIo ==
    [schedule_age |-> 0,
     schedule_resp |-> [ok |-> TRUE, data |-> sor.schedule],
     map_age |-> 0,
     map_resp |-> [attempts |-> env.attempts, data |-> master.studio_ids],
     slots_resp |-> GetShiftSlots(env.slots_ok)]

\* One run of step 4 (no instructor_ids in the payload) against the caches
RunResolver ==
    /\ Len(runs) < 2
    /\ LET r == ResolveInstructors(master.program, env.start_at, choice_schedule_cache,
                                   instructor_studio_map_cache, ResolverIo)
       IN /\ choice_schedule_cache' = r.schedule_cache
          /\ instructor_studio_map_cache' = r.map_cache
          /\ runs' = Append(runs, [available |-> r.available,
                                   instructor_ids |-> FirstFit(r.available)])
    /\ UNCHANGED <<store, workers, probe, verdict, access, master, sor, env, req, pc, loc, calls, resp, served, refresh_pending>>

NextResolver == RunResolver

SpecResolver == InitResolver /\ [][NextResolver]_vars

\* ======================================================== booking handlers
MaxRequests == 1

DEFAULT_TICKET_ID == 5
RESERVATION_MIN_MINUTES_AHEAD == 30
RESERVATION_MAX_DAYS_AHEAD == 14
SecondsPerMinute == 60
SecondsPerDay == 86400

Call(step, op) == [step |-> step, op |-> op]

\* ------------------------------------------------------------- responses
ErrorReply(status, error_code) ==
    [NoResponse EXCEPT !.status = status, !.error_code = error_code]

\* The reply with its "error" text, named by what the text says
Tagged(reply, error) == [reply EXCEPT !.error = error]

\* The reply with the "message" text the handler writes out for its error code
WithMessage(reply) == [reply EXCEPT !.message = [kind |-> "literal", text |-> reply.error_code]]

\* handle_errors: an exception that leaves the handler; "message" is str(e)
InternalError ==
    [Tagged(ErrorReply(500, ""), "internal_server_error")
        EXCEPT !.message = [kind |-> "exception", text |-> ""]]

\* The 201 reply: the reservation's id and member, and the verification hash
SuccessReply(reservation_id, member_id, verify_hash_value) ==
    [NoResponse EXCEPT !.status = 201, !.success = TRUE,
                       !.reservation_id = reservation_id, !.member_id = member_id,
                       !.verify = verify_hash_value]

\* The codes of the error_messages table, in the order the table lists them
error_messages ==
    <<"RSV_000309", "RSV_000308", "RSV_000304", "RSV_000008", "RSV_000005",
      "RSV_000001", "CMN_000051", "CMN_000025", "CMN_000022", "CMN_000001">>

\* The hacomono error codes of the error_messages table
KnownErrorCodes == {error_messages[k] : k \in DOMAIN error_messages}

\* An adapter error: the codes its text and response body contain, and the
\* messages of the errors its response body lists when the body is JSON
MkBody(codes, errors) == [codes |-> codes, errors |-> errors]

\* body_json["errors"][0].get("message", "") of a body that parses, else nothing
ApiMessage(body) == IF body.errors = <<>> THEN "" ELSE body.errors[1]

\* _parse_hacomono_error: the first code of the table that the text contains,
\* else the message of the body's first error, else the generic message
ParseHacomonoError_MessageFirst(body) ==
    LET hits == {k \in DOMAIN error_messages : error_messages[k] \in body.codes}
        first == CHOOSE k \in hits : \A h \in hits : k <= h
    IN IF ApiMessage(body) # ""
       THEN [error_code |-> "UNKNOWN",
             user_message |-> [kind |-> "api", text |-> ApiMessage(body)]]
       ELSE IF hits # {}
       THEN [error_code |-> error_messages[first],
             user_message |-> [kind |-> "table", text |-> error_messages[first]]]
       ELSE [error_code |-> "UNKNOWN", user_message |-> [kind |-> "generic", text |-> ""]]

ParseHacomonoError(body) ==
    LET hits == {k \in DOMAIN error_messages : error_messages[k] \in body.codes}
        first == CHOOSE k \in hits : \A h \in hits : k <= h
    IN IF hits # {}
       THEN [error_code |-> error_messages[first],
             user_message |-> [kind |-> "table", text |-> error_messages[first]]]
       ELSE IF ApiMessage(body) # ""
       THEN [error_code |-> "UNKNOWN",
             user_message |-> [kind |-> "api", text |-> ApiMessage(body)]]
       ELSE [error_code |-> "UNKNOWN", user_message |-> [kind |-> "generic", text |-> ""]]

ErrorInfoReply(status, error_info) ==
    [NoResponse EXCEPT !.status = status, !.error_code = error_info.error_code,
                       !.message = error_info.user_message]

NoBody == MkBody({}, <<>>)

\* ---------------------------------------------------- request validation
\* datetime.strptime(start_at.split(".")[0], "%Y-%m-%d %H:%M:%S")
ParseSeconds(start_at) ==
    [ok |-> start_at.fmt \in {"ms", "sec"}, t |-> start_at.t]

\* datetime.strptime(start_at, "%Y-%m-%d %H:%M:%S.%f")
ParseMillis(start_at) ==
    [ok |-> start_at.fmt = "ms", t |-> start_at.t]

\* The f-string messages, by the bound they name
MinutesAheadMessage == [kind |-> "minutes_ahead", text |-> ToString(RESERVATION_MIN_MINUTES_AHEAD)]

DaysAheadMessage == [kind |-> "days_ahead", text |-> ToString(RESERVATION_MAX_DAYS_AHEAD)]

\* validate_reservation_datetime, both times in seconds; now is datetime.now()
validate_reservation_datetime_Inclusive(reservation_datetime, now) ==
    IF reservation_datetime <= now + RESERVATION_MIN_MINUTES_AHEAD * SecondsPerMinute
    THEN [is_valid |-> FALSE, error_message |-> MinutesAheadMessage]
    ELSE IF reservation_datetime >= now + RESERVATION_MAX_DAYS_AHEAD * SecondsPerDay
    THEN [is_valid |-> FALSE, error_message |-> DaysAheadMessage]
    ELSE [is_valid |-> TRUE, error_message |-> NoMessage]

validate_reservation_datetime(reservation_datetime, now) ==
    IF reservation_datetime < now + RESERVATION_MIN_MINUTES_AHEAD * SecondsPerMinute
    THEN [is_valid |-> FALSE, error_message |-> MinutesAheadMessage]
    ELSE IF reservation_datetime > now + RESERVATION_MAX_DAYS_AHEAD * SecondsPerDay
    THEN [is_valid |-> FALSE, error_message |-> DaysAheadMessage]
    ELSE [is_valid |-> TRUE, error_message |-> NoMessage]

\* is_valid for the handlers, whose times are whole minutes
ValidateReservationDatetime_Always(reservation_datetime, now) == TRUE

ValidateReservationDatetime(reservation_datetime, now) ==
    validate_reservation_datetime(reservation_datetime * SecondsPerMinute,
                                  now * SecondsPerMinute).is_valid

\* ------------------------------------------------------------ entitlement
\* tid = detail.get("ticket_id") or detail.get("id"), the first that is set
LimitedTicketIds(details) ==
    SelectSeq([k \in 1..Len(details) |->
                  IF details[k].ticket_id # 0 THEN details[k].ticket_id
                  ELSE details[k].id],
              LAMBDA tid : tid # 0)

\* ticket_id_to_grant for a fetched program
TicketIdToGrant_LinkedFirst(program) ==
    LET program_ticket_ids ==
            IF program.consumable_ticket_ids # <<>> THEN program.consumable_ticket_ids
            ELSE IF program.ticket_ids # <<>> THEN program.ticket_ids
            ELSE program.reservable_ticket_ids
    IN IF program_ticket_ids # <<>> THEN program_ticket_ids[1]
       ELSE IF LimitedTicketIds(program.ticket_reserve_limit_details) # <<>>
       THEN LimitedTicketIds(program.ticket_reserve_limit_details)[1]
       ELSE DEFAULT_TICKET_ID

TicketIdToGrant(program) ==
    IF program.is_ticket_reserve_limit /\ program.ticket_reserve_limit_details # <<>>
    THEN IF LimitedTicketIds(program.ticket_reserve_limit_details) # <<>>
         THEN LimitedTicketIds(program.ticket_reserve_limit_details)[1]
         ELSE DEFAULT_TICKET_ID
    ELSE LET program_ticket_ids ==
                 IF program.consumable_ticket_ids # <<>> THEN program.consumable_ticket_ids
                 ELSE IF program.ticket_ids # <<>> THEN program.ticket_ids
                 ELSE program.reservable_ticket_ids
         IN IF program_ticket_ids # <<>> THEN program_ticket_ids[1]
            ELSE DEFAULT_TICKET_ID

\* --------------------------------------------------------------- resources
has_selectable_resources(program) ==
    LET details == program.selectable_resource_details IN
    /\ details # <<>>
    /\ \A k \in DOMAIN details :
          /\ details[k].type \notin {"ALL", "RANDOM_ALL"}
          /\ details[k].type \in {"SELECTED", "FIXED", "RANDOM_SELECTED"}
                => Len(details[k].items) > 0

\* The resources a program links
LinkedResources(program) ==
    UNION {Range(program.selectable_resource_details[k].items) :
              k \in DOMAIN program.selectable_resource_details}

\* A linked resource with no reservation overlapping [start, end) in the snapshot
FreeResources(program, schedule, start_datetime, proposed_end) ==
    {r \in LinkedResources(program) :
        \A k \in DOMAIN schedule.reservation_assign_resource :
            LET b == schedule.reservation_assign_resource[k] IN
            ~(/\ b.entity_id = r
              /\ start_datetime < ToJST(b.end_at)
              /\ proposed_end > ToJST(b.start_at))}

\* The outcome of step 4 once the resolver has run: the error code, "" to go on
ResolveOutcome_WithResources(resolved, program, start_datetime) ==
    IF resolved.raised THEN "INSTRUCTOR_FETCH_ERROR"
    ELSE IF FirstFit(resolved.available) = <<>> THEN "NO_AVAILABLE_INSTRUCTOR"
    ELSE IF /\ has_selectable_resources(program)
            /\ FreeResources(program, resolved.schedule, start_datetime,
                             start_datetime + program.service_minutes) = {}
    THEN "NO_AVAILABLE_RESOURCE"
    ELSE ""

ResolveOutcome_NoEmptyCheck(resolved, program, start_datetime) ==
    IF resolved.raised THEN "INSTRUCTOR_FETCH_ERROR" ELSE ""

ResolveOutcome(resolved, program, start_datetime) ==
    IF resolved.raised THEN "INSTRUCTOR_FETCH_ERROR"
    ELSE IF FirstFit(resolved.available) = <<>> THEN "NO_AVAILABLE_INSTRUCTOR"
    ELSE ""

\* The adapter reads step 4 issued, in order
ResolverCalls(resolved) ==
    (IF resolved.schedule_fetched THEN <<Call("assign", "get_choice_schedule")>> ELSE <<>>)
    \o (IF resolved.raised THEN <<>>
        ELSE (IF resolved.map_fetched THEN <<Call("assign", "get_instructors")>> ELSE <<>>)
             \o <<Call("assign", "get_shift_slots")>>)

\* ------------------------------------------------------------------- guest
\* "error": "ゲスト情報の登録に失敗しました" / "Failed to create guest member" /
\* "メンバーの作成に失敗しました"
GuestCreateFailed(reply) == Tagged(reply, "guest_create_failed")

\* "error": "予約の作成に失敗しました"
ReservationCreateFailed(reply) == Tagged(reply, "reservation_create_failed")

\* How the search for an existing member ended
LookupResult(ok, member_id) ==
    IF ~ok THEN "failed" ELSE IF member_id # 0 THEN "found" ELSE "none"

\* `if not member_id` after the lookup
NeedsCreate_Always(member_id) == TRUE

NeedsCreate(member_id) == member_id = 0

\* The system of record once a booking has failed at assignment or at commit:
\* the handlers notify and return, and call the adapter no more
AfterFailure_Reclaim(s) ==
    [s EXCEPT !.member_tickets = IF @ = <<>> THEN @ ELSE SubSeq(@, 1, Len(@) - 1)]

AfterFailure(s) == s

\* client.grant_ticket_to_member(member_id, ticket_id=ticket_id_to_grant, num=1)
GrantCall(member_id, ticket_id) == [member_id |-> member_id, ticket_id |-> ticket_id, num |-> 1]

\* `if not member_id` after lookup and creation
GuestUnresolved_Never(member_id) == FALSE

GuestUnresolved(member_id) == member_id = 0

\* The id the system of record gives a new member
NewMemberId(members) ==
    CHOOSE n \in 1..(Cardinality(Emails) + 1) :
        /\ n \notin Range(members)
        /\ \A m \in 1..(n - 1) : m \in Range(members)

\* ------------------------------------------------------------------- seats
\* int(no) / str(seat) on seat numbers
IntOf(s) == CHOOSE n \in 0..9 : ToString(n) = s

\* all_seats: int(no) of the space details that carry a no ("" is None)
AllSeats(space_details) ==
    LET numbered == SelectSeq(space_details, LAMBDA detail : detail.no # "")
    IN [k \in 1..Len(numbered) |-> IntOf(numbered[k].no)]

\* reserved_seats: the seats of the lesson's reservations with status 2 or 3;
\* a failed read leaves the set empty
ReservedSeats(reservations_resp) ==
    IF reservations_resp.ok
    THEN {IntOf(r.no) : r \in {x \in Range(reservations_resp.list) :
                                  x.status \in {2, 3} /\ x.no # ""}}
    ELSE {}

AvailableSeats_All(all_seats, reserved_seats) == all_seats

AvailableSeats(all_seats, reserved_seats) ==
    SelectSeq(all_seats, LAMBDA s : s \notin reserved_seats)

\* space_no = str(available_seats[0])
PickSeat_Last(available_seats) == ToString(available_seats[Len(available_seats)])

PickSeat(available_seats) == ToString(available_seats[1])

\* The first no_label that is set, "" when there is none
NoLabelFallback(space_details) ==
    LET labelled == SelectSeq(space_details, LAMBDA detail : detail.no_label # "")
    IN IF labelled = <<>> THEN "" ELSE labelled[1].no_label

\* client.get_studio_room_space: the seats of the space, or a failure
GetStudioRoomSpace(ok) == [ok |-> ok, details |-> master.space_details]

\* Step "2. レッスン情報を取得して空き席を決定" of create_reservation up to the
\* SPACE_NO_MISSING test.  lesson_resp.kind is "ok", "error" (HacomonoAPIError)
\* or "down" (any other exception, which leaves the handler).
SeatStep(data_space_no, lesson_resp, space_resp, reservations_resp) ==
    LET lesson_ok == lesson_resp.kind = "ok"
        studio_room_space_id == lesson_resp.data.studio_room_space_id
        space_read == lesson_ok /\ studio_room_space_id # 0 /\ space_resp.ok
        all_seats == IF space_read THEN AllSeats(space_resp.details) ELSE <<>>
        reserved_seats == IF all_seats # <<>> THEN ReservedSeats(reservations_resp)
                          ELSE {}
        available_seats == AvailableSeats(all_seats, reserved_seats)
        full == all_seats # <<>> /\ available_seats = <<>>
        assigned == IF available_seats # <<>> THEN PickSeat(available_seats)
                    ELSE IF space_read /\ all_seats = <<>>
                    THEN NoLabelFallback(space_resp.details)
                    ELSE ""
        space_no == IF full THEN ""
                    ELSE IF lesson_ok /\ data_space_no = "" THEN assigned
                    ELSE data_space_no
        space_has_valid_no == (lesson_ok /\ all_seats # <<>>) \/ data_space_no # ""
    IN [error_code |->
            IF lesson_resp.kind = "down" THEN "INTERNAL"
            ELSE IF full THEN "RSV_000008"
            ELSE IF space_no = "" \/ ~space_has_valid_no THEN "SPACE_NO_MISSING"
            ELSE "",
        all_seats |-> all_seats, reserved_seats |-> reserved_seats,
        seats_read |-> all_seats # <<>>,
        space_no |-> space_no, space_has_valid_no |-> space_has_valid_no,
        calls |-> <<Call("assign", "get_studio_lesson")>>
                  \o (IF lesson_ok /\ studio_room_space_id # 0
                      THEN <<Call("assign", "get_studio_room_space")>> ELSE <<>>)
                  \o (IF all_seats # <<>>
                      THEN <<Call("assign", "get_reservations")>> ELSE <<>>)]

\* ------------------------------------------------------------ the requests
NowChoices == {570}

MkChoiceRequest(email, start_at, instructor_ids) ==
    [mode |-> "choice", guest_email |-> email, guest_phone |-> GuestPhone,
     start_at |-> start_at,
     instructor_ids |-> instructor_ids, space_no |-> "", now |-> 570]

MkFixedRequest(email, space_no) ==
    [mode |-> "fixed", guest_email |-> email, guest_phone |-> GuestPhone,
     start_at |-> [t |-> 0, fmt |-> "ms"],
     instructor_ids |-> <<>>, space_no |-> space_no, now |-> 570]

ChoiceRequests ==
    {MkChoiceRequest(e, [t |-> 600, fmt |-> "ms"], <<>>) :
        e \in {"a@example.com", "b@example.com"}}
    \cup {MkChoiceRequest(e, [t |-> 600, fmt |-> "ms"], <<1>>) :
             e \in {"a@example.com", "A@example.com"}}
    \cup {MkChoiceRequest("a@example.com", s, <<>>) :
             s \in {[t |-> 660, fmt |-> "ms"], [t |-> 590, fmt |-> "ms"],
                    [t |-> 600, fmt |-> "sec"], [t |-> 590, fmt |-> "bad"],
                    [t |-> 20731, fmt |-> "ms"]}}
    \cup {MkChoiceRequest("", [t |-> 600, fmt |-> "ms"], <<>>)}

FixedRequests ==
    {MkFixedRequest(e, "") : e \in Emails}
    \cup {MkFixedRequest("a@example.com", "2")}
    \cup {MkFixedRequest("", "")}

\* ------------------------------------------------- what the adapter answers
RejectionBodies ==
    {MkBody({"RSV_000001"}, <<>>),
     MkBody({"RSV_000001"}, <<"rejected">>),
     MkBody({"RSV_000001", "RSV_000309"}, <<"rejected">>),
     MkBody({"RSV_999999"}, <<"rejected">>),
     MkBody({"RSV_999999"}, <<>>),
     MkBody({}, <<"rejected">>),
     MkBody({}, <<"", "rejected">>),
     NoBody}

Outcome(kind, body) == [kind |-> kind, body |-> body]

\* The accounts whose mail address is email up to letter case
SameAddressIds(email) ==
    {sor.members[e] : e \in {x \in Emails : NormalizeEmail(x) = NormalizeEmail(email)}} \ {0}

\* client.get_members({"mail_address": email}): the id of the first member listed,
\* 0 when the list is empty.  Whether the system of record matches the address
\* exactly or up to letter case is its own choice.
LookupAnswers(email) == {sor.members[email]} \cup SameAddressIds(email)

\* client.create_member: a member with this mail address is refused; whether an
\* address that differs in letter case only is refused is the system of record's choice
CreateOutcomes(email) ==
    {Outcome("rejected", MkBody({"CMN_000025"}, <<>>)), Outcome("down", NoBody)}
    \cup (IF SameAddressIds(email) # {}
          THEN {Outcome("in_use", MkBody({"CMN_000022"}, <<>>))}
          ELSE {})
    \cup (IF sor.members[email] = 0
          THEN {Outcome("created", NoBody), Outcome("no_id", NoBody)}
          ELSE {})

CommitOutcomes(accepted) ==
    {Outcome("rejected", b) : b \in RejectionBodies}
    \cup {Outcome("down", NoBody)}
    \cup (IF accepted THEN {Outcome("ok", NoBody)} ELSE {})

\* A cached value's age with the answer of the fetch that follows when it is stale
\* or missing: fresh, refetched, or stale with a failing fetch
ReadChoices(ttl) == {<<0, TRUE>>, <<ttl, TRUE>>, <<ttl, FALSE>>}

\* The adapter's answers and the cache ages during step 4 of a free-slot booking
BookingIo ==
    {[schedule_age |-> schedule[1],
      schedule_resp |-> [ok |-> schedule[2], data |-> sor.schedule],
      map_age |-> studio_map[1],
      map_resp |-> [attempts |-> <<FALSE, studio_map[2], studio_map[2]>>,
                    data |-> master.studio_ids],
      slots_resp |-> GetShiftSlots(slots_ok)] :
        schedule \in ReadChoices(CHOICE_SCHEDULE_CACHE_TTL_SECONDS),
        studio_map \in ReadChoices(INSTRUCTOR_CACHE_TTL_SECONDS),
        slots_ok \in BOOLEAN}

\* ------------------------------------------------------- the initial worlds
PlainProgram == MkProgram(30, 0, 0, <<>>)

\* A program that links resource 1 and its own ticket
LinkedProgram ==
    [PlainProgram EXCEPT !.selectable_resource_details =
                             <<[type |-> "SELECTED", items |-> <<1>>]>>,
                         !.ticket_ids = <<7>>]

\* A program whose restriction list names tickets 8 and 9 and that also links 7
RestrictedProgram ==
    [LinkedProgram EXCEPT !.selectable_resource_details = <<>>,
                          !.is_ticket_reserve_limit = TRUE,
                          !.ticket_reserve_limit_details =
                              <<[ticket_id |-> 8, id |-> 0], [ticket_id |-> 0, id |-> 9]>>]

\* A program whose restriction list has an entry without ticket_id and id
UnnamedRestrictionProgram ==
    [RestrictedProgram EXCEPT !.ticket_reserve_limit_details =
                                  <<[ticket_id |-> 0, id |-> 0]>>]

BookingShifts ==
    <<MkShift(1, <<600, 660>>, JST_OFFSET), MkShift(2, <<600, 660>>, JST_OFFSET)>>

BookingReservedLists ==
    {<<>>, <<MkBlock(1, <<600, 630>>, "RESERVE", JST_OFFSET)>>}

ResourceReservedLists ==
    {<<>>, <<MkBlock(1, <<600, 630>>, "RESERVE", JST_OFFSET)>>}

SpaceDetailChoices ==
    {DefaultSpaceDetails,
     <<MkSeat("3", "C"), MkSeat("1", "A"), MkSeat("2", "B")>>,
     <<MkSeat("", "A"), MkSeat("", "B")>>}

\* Sessions by their start_at: in range; too early; and beyond the horizon but
\* written at UTC, where the time of day it shows is within the horizon
LessonChoices ==
    {DefaultStudioLesson,
     [DefaultStudioLesson EXCEPT !.start_at = Stamp(590, JST_OFFSET)],
     [DefaultStudioLesson EXCEPT !.start_at = Stamp(20740, 0)]}

MkLessonReservation(no, status, member_id) ==
    [no |-> no, status |-> status, member_id |-> member_id]

HeldChoices ==
    {<<>>,
     <<MkLessonReservation("1", 2, 1), MkLessonReservation("2", 3, 1)>>,
     <<MkLessonReservation("1", 2, 1), MkLessonReservation("2", 3, 1),
       MkLessonReservation("3", 2, 1)>>,
     <<MkLessonReservation("1", 4, 1)>>}

InitChoiceWorld ==
    \E program \in {PlainProgram, LinkedProgram, RestrictedProgram},
       reserved \in BookingReservedLists, busy \in ResourceReservedLists :
        /\ program = PlainProgram => busy = <<>>
        /\ program = RestrictedProgram => busy = <<>> /\ reserved = <<>>
        /\ master = MkMaster(program, <<>>, <<>>, EmptyStudioMap)
        /\ sor = [MkSor(MkSchedule(1, BookingShifts, reserved))
                     EXCEPT !.schedule.reservation_assign_resource = busy]

InitFixedWorld ==
    \E details \in SpaceDetailChoices, held \in HeldChoices, lesson \in LessonChoices,
       program \in {PlainProgram, UnnamedRestrictionProgram} :
        /\ (lesson # DefaultStudioLesson \/ program # PlainProgram)
              => details = DefaultSpaceDetails /\ held = <<>>
        /\ program # PlainProgram => lesson = DefaultStudioLesson
        /\ master = [MkMaster(program, <<>>, <<>>, EmptyStudioMap)
                        EXCEPT !.space_details = details, !.studio_lesson = lesson]
        /\ sor = [MkSor(MkSchedule(1, BookingShifts, <<>>))
                     EXCEPT !.lesson_reservations = held]

Init ==
    /\ (InitChoiceWorld \/ InitFixedWorld)
    /\ choice_schedule_cache = NoScheduleCache
    /\ instructor_studio_map_cache = NoMapCache
    /\ env = MkEnv(0, TRUE, <<TRUE, TRUE, TRUE>>)
    /\ runs = <<>>
    /\ req = NoRequest
    /\ pc = "idle"
    /\ loc = InitLoc
    /\ calls = <<>>
    /\ resp = NoResponse
    /\ served = 0
    /\ refresh_pending = 0
    /\ probe = NoProbe
    /\ verdict = NoVerdict
    /\ access = NoAccess
    /\ store = InitStore
    /\ workers = InitWorkers

\* ------------------------------------------------------------ shared steps
ReceiveRequest ==
    /\ pc = "idle"
    /\ served < MaxRequests
    /\ \E r \in ChoiceRequests \cup FixedRequests : req' = r
    /\ pc' = "validate"
    /\ loc' = InitLoc
    /\ calls' = <<>>
    /\ resp' = NoResponse
    /\ served' = served + 1
    /\ access' = NoAccess
    /\ UNCHANGED <<store, workers, probe, verdict, master, sor, choice_schedule_cache, instructor_studio_map_cache,
                   env, runs, refresh_pending>>

\* --------------------------------------- create_choice_reservation (free-slot)
\* Required fields and "0. 予約日時が有効範囲内かチェック"
ChoiceValidate ==
    /\ pc = "validate" /\ req.mode = "choice"
    /\ LET missing == req.guest_email = ""
           parsed == ParseSeconds(req.start_at)
           out_of_range == /\ parsed.ok
                           /\ ~ValidateReservationDatetime(parsed.t, req.now)
       IN /\ pc' = IF missing \/ out_of_range THEN "idle" ELSE "lookup"
          /\ resp' = IF missing THEN ErrorReply(400, "")
                     ELSE IF out_of_range THEN ErrorReply(400, "DATETIME_OUT_OF_RANGE")
                     ELSE resp
    /\ UNCHANGED <<store, workers, probe, verdict, access, master, sor, choice_schedule_cache, instructor_studio_map_cache,
                   env, runs, req, loc, calls, served, refresh_pending>>

\* "1. まず既存のメンバーを検索": a failed search is logged and ignored
ChoiceLookupMember ==
    /\ pc = "lookup" /\ req.mode = "choice"
    /\ \E ok \in BOOLEAN, answer \in LookupAnswers(req.guest_email) :
        LET member_id == IF ok THEN answer ELSE 0
        IN /\ loc' = [loc EXCEPT !.member_id = member_id,
                                 !.lookup_member_id = member_id,
                                 !.lookup_result = LookupResult(ok, member_id)]
           /\ pc' = IF NeedsCreate(member_id) THEN "create" ELSE "program"
    /\ calls' = Append(calls, Call("guest", "get_members"))
    /\ UNCHANGED <<store, workers, probe, verdict, access, master, sor, choice_schedule_cache, instructor_studio_map_cache,
                   env, runs, req, resp, served, refresh_pending>>

\* "2. 既存メンバーがいなければ新規作成" up to `if not member_id`
ChoiceCreateMember ==
    /\ pc = "create" /\ req.mode = "choice"
    /\ \E outcome \in CreateOutcomes(req.guest_email) :
        LET member_id == IF outcome.kind = "created" THEN NewMemberId(sor.members)
                         ELSE 0
            error_info == ParseHacomonoError(outcome.body)
        IN /\ sor' = IF outcome.kind = "created"
                     THEN [sor EXCEPT !.members[req.guest_email] = member_id,
                                      !.tels[req.guest_email] = req.guest_phone]
                     ELSE sor
           /\ loc' = [loc EXCEPT !.member_id = member_id]
           /\ pc' = CASE outcome.kind = "in_use" -> "retry_lookup"
                      [] outcome.kind \in {"rejected", "down"} -> "idle"
                      [] OTHER -> IF GuestUnresolved(member_id) THEN "idle"
                                  ELSE "program"
           /\ resp' = CASE outcome.kind = "in_use" -> resp
                        [] outcome.kind = "rejected" -> GuestCreateFailed(ErrorInfoReply(400, error_info))
                        [] outcome.kind = "down" -> InternalError
                        [] OTHER -> IF GuestUnresolved(member_id)
                                    THEN GuestCreateFailed(ErrorReply(400, ""))
                                    ELSE resp
    /\ calls' = Append(calls, Call("guest", "create_member"))
    /\ UNCHANGED <<store, workers, probe, verdict, access, master, choice_schedule_cache, instructor_studio_map_cache,
                   env, runs, req, served, refresh_pending>>

\* The second search after CMN_000022.  shape is the JSON type of data.members:
\* members[0] on the {list: [...]} object raises KeyError, which leaves the handler
ChoiceRetryLookup ==
    /\ pc = "retry_lookup" /\ req.mode = "choice"
    /\ \E shape \in {"list", "dict", "error"}, answer \in LookupAnswers(req.guest_email) :
        LET member_id == IF shape = "list" THEN answer ELSE 0
            error_info == ParseHacomonoError(MkBody({"CMN_000022"}, <<>>))
        IN /\ loc' = [loc EXCEPT !.member_id = member_id]
           /\ pc' = IF shape = "list" /\ ~GuestUnresolved(member_id) THEN "program"
                    ELSE "idle"
           /\ resp' = IF shape = "dict" THEN InternalError
                      ELSE IF member_id = 0 THEN GuestCreateFailed(ErrorInfoReply(400, error_info))
                      ELSE resp
    /\ calls' = Append(calls, Call("guest", "get_members"))
    /\ UNCHANGED <<store, workers, probe, verdict, access, master, sor, choice_schedule_cache, instructor_studio_map_cache,
                   env, runs, req, served, refresh_pending>>

\* "2. プログラム情報を取得してチケットIDを確認": a failure leaves the handler
ChoiceGetProgram ==
    /\ pc = "program" /\ req.mode = "choice"
    /\ \E ok \in BOOLEAN :
        /\ loc' = IF ok THEN [loc EXCEPT !.program = master.program,
                                         !.program_read = TRUE,
                                         !.ticket_id_to_grant =
                                             TicketIdToGrant(master.program)]
                  ELSE loc
        /\ pc' = IF ok THEN "grant" ELSE "idle"
        /\ resp' = IF ok THEN resp ELSE InternalError
    /\ calls' = Append(calls, Call("program", "get_program"))
    /\ UNCHANGED <<store, workers, probe, verdict, access, master, sor, choice_schedule_cache, instructor_studio_map_cache,
                   env, runs, req, served, refresh_pending>>

\* "3. メンバーにチケットを付与" and the read of data.instructor_ids.  kind is "ok",
\* "error" (the call raises HacomonoAPIError, caught and logged) or "down" (it
\* raises anything else: a connection error, TokenRefreshedError)
ChoiceGrantTicket ==
    /\ pc = "grant" /\ req.mode = "choice"
    /\ \E kind \in {"ok", "error", "down"} :
        /\ sor' = IF kind = "ok"
                  THEN [sor EXCEPT !.member_tickets =
                            Append(@, [member_id |-> loc.member_id,
                                       ticket_id |-> loc.ticket_id_to_grant])]
                  ELSE sor
        /\ pc' = IF kind = "down" THEN "idle"
                 ELSE IF req.instructor_ids = <<>> THEN "resolve"
                 ELSE "commit"
        /\ resp' = IF kind = "down" THEN InternalError ELSE resp
        /\ loc' = [loc EXCEPT !.instructor_ids =
                                  IF kind = "down" THEN @ ELSE req.instructor_ids,
                              !.grant_call =
                                  GrantCall(loc.member_id, loc.ticket_id_to_grant),
                              !.grant_result = kind]
    /\ calls' = Append(calls, Call("grant", "grant_ticket_to_member"))
    /\ UNCHANGED <<store, workers, probe, verdict, access, master, choice_schedule_cache, instructor_studio_map_cache,
                   env, runs, req, served, refresh_pending>>

\* "4. 空いているスタッフを取得（指定されていない場合）"
ChoiceResolveInstructor ==
    /\ pc = "resolve" /\ req.mode = "choice"
    /\ \E io \in BookingIo :
        LET parsed == ParseMillis(req.start_at)
            resolved == ResolveInstructors(loc.program, parsed.t, choice_schedule_cache,
                                           instructor_studio_map_cache, io)
            error_code == IF parsed.ok
                          THEN ResolveOutcome(resolved, loc.program, parsed.t)
                          ELSE "INSTRUCTOR_FETCH_ERROR"
        IN /\ choice_schedule_cache' =
                  IF parsed.ok THEN resolved.schedule_cache ELSE choice_schedule_cache
           /\ instructor_studio_map_cache' =
                  IF parsed.ok THEN resolved.map_cache ELSE instructor_studio_map_cache
           /\ loc' = IF parsed.ok /\ ~resolved.raised
                     THEN [loc EXCEPT !.resolved = TRUE,
                                      !.available = resolved.available,
                                      !.schedule = resolved.schedule,
                                      !.instructor_ids = FirstFit(resolved.available)]
                     ELSE loc
           /\ calls' = IF parsed.ok THEN calls \o ResolverCalls(resolved) ELSE calls
           /\ pc' = IF error_code = "" THEN "commit" ELSE "idle"
           /\ resp' = IF error_code = "" THEN resp
                      ELSE WithMessage(ErrorReply(400, error_code))
           /\ sor' = IF error_code = "" THEN sor ELSE AfterFailure(sor)
    /\ UNCHANGED <<store, workers, probe, verdict, access, master, env, runs, req, served, refresh_pending>>

\* The reservation as the system of record shows it in later snapshots
CommittedBlocks(instructor_ids, start_datetime, minutes) ==
    [k \in 1..Len(instructor_ids) |->
        MkBlock(instructor_ids[k], <<start_datetime, start_datetime + minutes>>,
                "RESERVE", JST_OFFSET)]

\* client.create_choice_reservation(reservation_data)
ChoiceCommit ==
    /\ pc = "commit" /\ req.mode = "choice"
    /\ LET reservation_data ==
               [NoReservationData EXCEPT !.member_id = loc.member_id,
                                         !.ticket_id = loc.ticket_id_to_grant,
                                         !.instructor_ids = loc.instructor_ids,
                                         !.start_at = req.start_at]
       IN \E outcome \in CommitOutcomes(ParseMillis(req.start_at).ok) :
              /\ loc' = [loc EXCEPT !.reservation_data = reservation_data,
                                    !.commit_error = IF outcome.kind = "rejected"
                                                     THEN outcome.body ELSE @,
                                    !.reservation_id =
                                        IF outcome.kind = "ok"
                                        THEN [kind |-> "choice",
                                              k |-> Len(sor.reservations) + 1]
                                        ELSE @]
              /\ sor' = IF outcome.kind = "ok"
                        THEN [sor EXCEPT
                                !.reservations = Append(@, reservation_data),
                                !.schedule.reservation_assign_instructor =
                                    @ \o CommittedBlocks(loc.instructor_ids,
                                                         req.start_at.t,
                                                         master.program.service_minutes)]
                        ELSE AfterFailure(sor)
              /\ pc' = IF outcome.kind = "ok" THEN "respond" ELSE "idle"
              /\ resp' = CASE outcome.kind = "ok" -> resp
                           [] outcome.kind = "down" -> InternalError
                           [] OTHER -> ReservationCreateFailed(
                                           ErrorInfoReply(400, ParseHacomonoError(outcome.body)))
    /\ calls' = Append(calls, Call("commit", "create_choice_reservation"))
    /\ UNCHANGED <<store, workers, probe, verdict, access, master, choice_schedule_cache, instructor_studio_map_cache,
                   env, runs, req, served, refresh_pending>>

\* After the commit: the confirmation mail reads, the refresh thread, the 201
ChoiceRespond ==
    /\ pc = "respond" /\ req.mode = "choice"
    /\ calls' = calls \o <<Call("notify", "get_studio"), Call("notify", "get_program")>>
    /\ refresh_pending' = refresh_pending + 1
    /\ resp' = SuccessReply(loc.reservation_id, loc.member_id,
                             generate_verification_hash(EmailText(req.guest_email),
                                                        req.guest_phone))
    /\ pc' = "idle"
    /\ UNCHANGED <<store, workers, probe, verdict, access, master, sor, choice_schedule_cache, instructor_studio_map_cache,
                   env, runs, req, loc, served>>

\* refresh_cache_background: drop the booked day's snapshot, then read it again
RefreshCacheBackground ==
    /\ refresh_pending > 0
    /\ refresh_pending' = refresh_pending - 1
    /\ \E ok \in BOOLEAN :
        choice_schedule_cache' =
            GetCachedChoiceSchedule(NoScheduleCache, 0,
                                    [ok |-> ok, data |-> sor.schedule]).cache
    /\ UNCHANGED <<store, workers, probe, verdict, access, master, sor, instructor_studio_map_cache, env, runs, req, pc, loc,
                   calls, resp, served>>

\* ------------------------------------------------ create_reservation (fixed-slot)
\* Required fields and "0. レッスンの日時を取得して予約可能範囲をチェック": the lesson's
\* start is compared as the wall-clock time its string carries (tzinfo dropped)
FixedValidate ==
    /\ pc = "validate" /\ req.mode = "fixed"
    /\ \E ok \in BOOLEAN :
        LET missing == req.guest_email = ""
            lesson == master.studio_lesson
            out_of_range == /\ ok
                            /\ HasStamp(lesson.start_at)
                            /\ ~ValidateReservationDatetime(lesson.start_at.t, req.now)
        IN /\ pc' = IF missing \/ out_of_range THEN "idle" ELSE "program"
           /\ resp' = IF missing THEN ErrorReply(400, "VALIDATION_ERROR")
                      ELSE IF out_of_range THEN ErrorReply(400, "DATETIME_OUT_OF_RANGE")
                      ELSE resp
           /\ loc' = IF ~missing /\ ok
                     THEN [loc EXCEPT !.lesson_program_id = lesson.program_id]
                     ELSE loc
           /\ calls' = IF missing THEN calls
                       ELSE Append(calls, Call("validate", "get_studio_lesson"))
    /\ UNCHANGED <<store, workers, probe, verdict, access, master, sor, choice_schedule_cache, instructor_studio_map_cache,
                   env, runs, req, served, refresh_pending>>

\* "1. プログラムに紐づくチケットIDを取得": any failure keeps the default ticket
FixedGetProgram ==
    /\ pc = "program" /\ req.mode = "fixed"
    /\ \E ok \in BOOLEAN :
        /\ loc' = IF loc.lesson_program_id # 0 /\ ok
                  THEN [loc EXCEPT !.program = master.program,
                                   !.program_read = TRUE,
                                   !.ticket_id_to_grant = TicketIdToGrant(master.program)]
                  ELSE [loc EXCEPT !.ticket_id_to_grant = DEFAULT_TICKET_ID]
    /\ calls' = IF loc.lesson_program_id # 0
                THEN Append(calls, Call("program", "get_program"))
                ELSE calls
    /\ pc' = "lookup"
    /\ UNCHANGED <<store, workers, probe, verdict, access, master, sor, choice_schedule_cache, instructor_studio_map_cache,
                   env, runs, req, resp, served, refresh_pending>>

\* _create_guest_member: the keyword search, matched on mail_address
FixedLookupMember ==
    /\ pc = "lookup" /\ req.mode = "fixed"
    /\ \E ok \in BOOLEAN :
        LET member_id == IF ok THEN sor.members[req.guest_email] ELSE 0
        IN /\ loc' = [loc EXCEPT !.member_id = member_id,
                                 !.lookup_member_id = member_id,
                                 !.lookup_result = LookupResult(ok, member_id)]
           /\ pc' = IF NeedsCreate(member_id) THEN "create" ELSE "grant"
    /\ calls' = Append(calls, Call("guest", "get_members"))
    /\ UNCHANGED <<store, workers, probe, verdict, access, master, sor, choice_schedule_cache, instructor_studio_map_cache,
                   env, runs, req, resp, served, refresh_pending>>

\* _create_guest_member: create_member, ValueError when the answer has no id
FixedCreateMember ==
    /\ pc = "create" /\ req.mode = "fixed"
    /\ \E outcome \in CreateOutcomes(req.guest_email) :
        LET member_id == IF outcome.kind = "created" THEN NewMemberId(sor.members)
                         ELSE 0
        IN /\ sor' = IF outcome.kind = "created"
                     THEN [sor EXCEPT !.members[req.guest_email] = member_id,
                                      !.tels[req.guest_email] = req.guest_phone]
                     ELSE sor
           /\ loc' = [loc EXCEPT !.member_id = member_id]
           /\ pc' = IF outcome.kind = "created" THEN "grant" ELSE "idle"
           /\ resp' = CASE outcome.kind = "created" -> resp
                        [] outcome.kind = "no_id" ->
                               GuestCreateFailed(ErrorReply(400, "MEMBER_CREATE_ERROR"))
                        [] outcome.kind = "down" -> InternalError
                        [] OTHER -> GuestCreateFailed(
                                        ErrorInfoReply(400, ParseHacomonoError(outcome.body)))
    /\ calls' = Append(calls, Call("guest", "create_member"))
    /\ UNCHANGED <<store, workers, probe, verdict, access, master, choice_schedule_cache, instructor_studio_map_cache,
                   env, runs, req, served, refresh_pending>>

\* _create_guest_member: "2. チケットを付与"
FixedGrantTicket ==
    /\ pc = "grant" /\ req.mode = "fixed"
    /\ \E kind \in {"ok", "error", "down"} :
        /\ sor' = IF kind = "ok"
                  THEN [sor EXCEPT !.member_tickets =
                            Append(@, [member_id |-> loc.member_id,
                                       ticket_id |-> loc.ticket_id_to_grant])]
                  ELSE sor
        /\ loc' = [loc EXCEPT !.member_ticket_id =
                       IF kind = "ok" THEN Len(sor.member_tickets) + 1 ELSE 0,
                                !.grant_call =
                                    GrantCall(loc.member_id, loc.ticket_id_to_grant),
                                !.grant_result = kind]
        /\ pc' = IF kind = "down" THEN "idle" ELSE "seat"
        /\ resp' = IF kind = "down" THEN InternalError ELSE resp
    /\ calls' = Append(calls, Call("grant", "grant_ticket_to_member"))
    /\ UNCHANGED <<store, workers, probe, verdict, access, master, choice_schedule_cache, instructor_studio_map_cache,
                   env, runs, req, served, refresh_pending>>

\* "2. レッスン情報を取得して空き席を決定"
FixedAssignSeat ==
    /\ pc = "seat" /\ req.mode = "fixed"
    /\ \E kind \in {"ok", "error", "down"}, space_ok \in BOOLEAN,
          reservations_ok \in BOOLEAN :
        LET step == SeatStep(req.space_no,
                             [kind |-> kind, data |-> master.studio_lesson],
                             GetStudioRoomSpace(space_ok),
                             [ok |-> reservations_ok, list |-> sor.lesson_reservations])
        IN /\ loc' = [loc EXCEPT !.seats_read = step.seats_read,
                                 !.all_seats = step.all_seats,
                                 !.reserved_seats = step.reserved_seats,
                                 !.space_no = step.space_no,
                                 !.space_has_valid_no = step.space_has_valid_no]
           /\ calls' = calls \o step.calls
           /\ pc' = IF step.error_code = "" THEN "commit" ELSE "idle"
           /\ resp' = IF step.error_code = "" THEN resp
                      ELSE IF step.error_code = "INTERNAL" THEN InternalError
                      ELSE WithMessage(ErrorReply(400, step.error_code))
           /\ sor' = IF step.error_code = "" THEN sor ELSE AfterFailure(sor)
    /\ UNCHANGED <<store, workers, probe, verdict, access, master, choice_schedule_cache, instructor_studio_map_cache,
                   env, runs, req, served, refresh_pending>>

\* Whether a confirmed or completed reservation of the lesson holds the seat
SeatHeld(lesson_reservations, no) ==
    \E k \in DOMAIN lesson_reservations :
        lesson_reservations[k].no = no /\ lesson_reservations[k].status \in {2, 3}

\* "3. 予約を作成": client.create_reservation(reservation_data)
FixedCommit ==
    /\ pc = "commit" /\ req.mode = "fixed"
    /\ LET reservation_data ==
               [NoReservationData EXCEPT !.member_id = loc.member_id,
                                         !.no = loc.space_no,
                                         !.member_ticket_id = loc.member_ticket_id]
       IN \E outcome \in CommitOutcomes(~SeatHeld(sor.lesson_reservations,
                                                  loc.space_no)) :
              /\ loc' = [loc EXCEPT !.reservation_data = reservation_data,
                                    !.commit_error = IF outcome.kind = "rejected"
                                                     THEN outcome.body ELSE @,
                                    !.reservation_id =
                                        IF outcome.kind = "ok"
                                        THEN [kind |-> "lesson",
                                              k |-> Len(sor.lesson_reservations) + 1]
                                        ELSE @]
              /\ sor' = IF outcome.kind = "ok"
                        THEN [sor EXCEPT !.lesson_reservations =
                                  Append(@, MkLessonReservation(loc.space_no, 2,
                                                                loc.member_id))]
                        ELSE AfterFailure(sor)
              /\ pc' = IF outcome.kind = "ok" THEN "respond" ELSE "idle"
              /\ resp' = CASE outcome.kind = "ok" -> resp
                           [] outcome.kind = "down" -> InternalError
                           [] OTHER -> ReservationCreateFailed(
                                           ErrorInfoReply(400, ParseHacomonoError(outcome.body)))
    /\ calls' = Append(calls, Call("commit", "create_reservation"))
    /\ UNCHANGED <<store, workers, probe, verdict, access, master, choice_schedule_cache, instructor_studio_map_cache,
                   env, runs, req, served, refresh_pending>>

\* After the commit: the confirmation mail reads and the 201
FixedRespond ==
    /\ pc = "respond" /\ req.mode = "fixed"
    /\ calls' = calls \o <<Call("notify", "get_studio_lesson"),
                           Call("notify", "get_studio"),
                           Call("notify", "get_program")>>
    /\ resp' = SuccessReply(loc.reservation_id, loc.member_id,
                             generate_verification_hash(EmailText(req.guest_email),
                                                        req.guest_phone))
    /\ pc' = "idle"
    /\ UNCHANGED <<store, workers, probe, verdict, access, master, sor, choice_schedule_cache, instructor_studio_map_cache,
                   env, runs, req, loc, served, refresh_pending>>

Next ==
    \/ ReceiveRequest
    \/ ChoiceValidate
    \/ ChoiceLookupMember
    \/ ChoiceCreateMember
    \/ ChoiceRetryLookup
    \/ ChoiceGetProgram
    \/ ChoiceGrantTicket
    \/ ChoiceResolveInstructor
    \/ ChoiceCommit
    \/ ChoiceRespond
    \/ RefreshCacheBackground
    \/ FixedValidate
    \/ FixedGetProgram
    \/ FixedLookupMember
    \/ FixedCreateMember
    \/ FixedGrantTicket
    \/ FixedAssignSeat
    \/ FixedCommit
    \/ FixedRespond

Spec == Init /\ [][Next]_vars

\* ------------------------------------- validate_reservation_datetime on its own
MaxProbeHours == 12

\* Clock readings, in seconds
ProbeNows == {h * 3600 + s : h \in 0..MaxProbeHours, s \in {0, 59}}

\* Requested starts around the two bounds, as seconds after the clock reading
ProbeLeads ==
    {RESERVATION_MIN_MINUTES_AHEAD * SecondsPerMinute + d : d \in {-60, -1, 0, 1}}
    \cup {RESERVATION_MAX_DAYS_AHEAD * SecondsPerDay + d : d \in {-1, 0, 1, SecondsPerDay}}
    \cup {0, SecondsPerDay}

InitValidate ==
    /\ master = MkMaster(PlainProgram, <<>>, <<>>, EmptyStudioMap)
    /\ sor = MkSor(MkSchedule(1, BookingShifts, <<>>))
    /\ choice_schedule_cache = NoScheduleCache
    /\ instructor_studio_map_cache = NoMapCache
    /\ env = MkEnv(0, TRUE, <<TRUE, TRUE, TRUE>>)
    /\ runs = <<>>
    /\ req = NoRequest
    /\ pc = "idle"
    /\ loc = InitLoc
    /\ calls = <<>>
    /\ resp = NoResponse
    /\ served = 0
    /\ refresh_pending = 0
    /\ probe = NoProbe
    /\ verdict = NoVerdict
    /\ access = NoAccess
    /\ store = InitStore
    /\ workers = InitWorkers

\* is_valid, error_msg = validate_reservation_datetime(reservation_datetime)
CallValidate ==
    /\ \E now \in ProbeNows, lead \in ProbeLeads :
        /\ probe' = [reservation_datetime |-> now + lead, now |-> now]
        /\ verdict' = validate_reservation_datetime(now + lead, now)
    /\ UNCHANGED <<store, workers, master, sor, choice_schedule_cache, instructor_studio_map_cache,
                   env, runs, req, pc, loc, calls, resp, served, refresh_pending, access>>

NextValidate == CallValidate

SpecValidate == InitValidate /\ [][NextValidate]_vars

\* ================================================================== claims
\* ------------------------------------------ the token functions on their own
\* Addresses and phone numbers that differ in case, blanks, hyphens and colons
TokenEmails == {<<"a">>, <<"A">>, <<" ", "a">>, <<"b">>, <<"a", ":", "1">>}

TokenPhones == {<<"1", "2">>, <<"1", "-", "2">>, <<"1", " ", "2">>, <<"2">>, <<"1", ":", "2">>}

NoTokenProbe == [email |-> <<>>, phone |-> <<>>, other_email |-> <<>>, other_phone |-> <<>>]

InitToken ==
    /\ master = MkMaster(PlainProgram, <<>>, <<>>, EmptyStudioMap)
    /\ sor = MkSor(MkSchedule(1, BookingShifts, <<>>))
    /\ choice_schedule_cache = NoScheduleCache
    /\ instructor_studio_map_cache = NoMapCache
    /\ env = MkEnv(0, TRUE, <<TRUE, TRUE, TRUE>>)
    /\ runs = <<>>
    /\ req = NoRequest
    /\ pc = "idle"
    /\ loc = InitLoc
    /\ calls = <<>>
    /\ resp = NoResponse
    /\ served = 0
    /\ refresh_pending = 0
    /\ probe = NoTokenProbe
    /\ verdict = NoVerdict
    /\ access = NoAccess
    /\ store = InitStore
    /\ workers = InitWorkers

\* A token is generated for one pair and for another, each is generated again,
\* and both are verified against the first pair
CallToken ==
    /\ probe = NoTokenProbe
    /\ \E email \in TokenEmails, phone \in TokenPhones,
          other_email \in TokenEmails, other_phone \in TokenPhones :
        /\ probe' = [email |-> email, phone |-> phone,
                     other_email |-> other_email, other_phone |-> other_phone]
        /\ verdict' =
              [token |-> generate_verification_hash(email, phone),
               again |-> generate_verification_hash(email, phone),
               own |-> verify_hash(email, phone,
                                   generate_verification_hash(email, phone)),
               other |-> verify_hash(email, phone,
                                     generate_verification_hash(other_email,
                                                                other_phone))]
    /\ UNCHANGED <<store, workers, master, sor, choice_schedule_cache, instructor_studio_map_cache,
                   env, runs, req, pc, loc, calls, resp, served, refresh_pending, access>>

NextToken == CallToken

SpecToken == InitToken /\ [][NextToken]_vars

\* ------------------------------------- get_reservation and cancel_reservation
\* client.get_member(member_id): the stored mail address and tel of the account
StoredMember(member_id) ==
    LET owners == {e \in Emails : sor.members[e] = member_id /\ member_id # 0}
    IN IF owners = {} THEN [found |-> FALSE, mail_address |-> <<>>, tel |-> <<>>]
       ELSE LET e == CHOOSE x \in owners : TRUE
            IN [found |-> TRUE, mail_address |-> EmailText(e), tel |-> sor.tels[e]]

\* The reservations of the system of record, and the member each belongs to
ReservationIds ==
    {[kind |-> "choice", k |-> k] : k \in DOMAIN sor.reservations}
    \cup {[kind |-> "lesson", k |-> k] : k \in DOMAIN sor.lesson_reservations}

ReservationMember(reservation_id) ==
    IF reservation_id.kind = "choice" THEN sor.reservations[reservation_id.k].member_id
    ELSE sor.lesson_reservations[reservation_id.k].member_id

\* The tokens a caller presents: none, the one of the last reply, and others
Tokens ==
    {NoToken, resp.verify,
     generate_verification_hash(<<"a">>, GuestPhone),
     generate_verification_hash(<<"a">>, <<"2">>),
     generate_verification_hash(<<"b">>, GuestPhone)}

MemberIds == 0..2

\* The reply of a detail or cancel request, with the adapter calls it issued and
\* whether it came to read the member's stored data
Reply(op, reservation_id, member_id, verify, status, details, issued, member_read) ==
    [op |-> op, reservation_id |-> reservation_id, member_id |-> member_id,
     verify |-> verify, status |-> status, details |-> details, calls |-> issued,
     member_read |-> member_read, forwarded |-> <<>>]

\* GET /api/reservations/<id>?member_id=&verify=
GetReservation ==
    /\ pc = "idle"
    /\ \E reservation_id \in ReservationIds, provided_member_id \in MemberIds,
          provided_verify \in Tokens, reservation_ok \in BOOLEAN, member_ok \in BOOLEAN :
        LET member == StoredMember(provided_member_id)
            R(status, details, issued, member_read) ==
                Reply("detail", reservation_id, provided_member_id, provided_verify,
                      status, details, issued, member_read)
        IN access' =
             IF provided_member_id = 0 \/ provided_verify = NoToken
             THEN R(400, FALSE, <<>>, FALSE)
             ELSE IF ~reservation_ok
             THEN R(500, FALSE, <<"get_reservation">>, FALSE)
             ELSE IF ReservationMember(reservation_id) # provided_member_id
             THEN R(403, FALSE, <<"get_reservation">>, FALSE)
             ELSE IF ~member_ok \/ ~member.found
             THEN R(500, FALSE, <<"get_reservation", "get_member">>, FALSE)
             ELSE IF ~verify_hash(member.mail_address, member.tel, provided_verify)
             THEN R(403, FALSE, <<"get_reservation", "get_member">>, TRUE)
             ELSE R(200, TRUE, <<"get_reservation", "get_member">>, TRUE)
    /\ UNCHANGED <<store, workers, probe, verdict, master, sor, choice_schedule_cache,
                   instructor_studio_map_cache, env, runs, req, pc, loc, calls, resp,
                   served, refresh_pending>>

\* client.cancel_reservation(member_id, [reservation_id]) on the client's
\* cancel_reservation(self, reservation_ids): the call raises TypeError before
\* any request is sent
CancelCall(member_id, reservation_ids) == [raised |-> TRUE, issued |-> <<>>]

\* POST /api/reservations/<id>/cancel with member_id and verify; forwarded is
\* the list of reservation ids the handler hands to client.cancel_reservation
CancelReservation ==
    /\ pc = "idle"
    /\ \E reservation_id \in ReservationIds, member_id \in MemberIds,
          provided_verify \in Tokens, member_ok \in BOOLEAN :
        LET member == StoredMember(member_id)
            cancel == CancelCall(member_id, <<reservation_id>>)
            R(status, issued, member_read) ==
                Reply("cancel", reservation_id, member_id, provided_verify,
                      status, FALSE, issued, member_read)
        IN access' =
             IF member_id = 0 \/ provided_verify = NoToken
             THEN R(400, <<>>, FALSE)
             ELSE IF ~member_ok \/ ~member.found
             THEN R(500, <<"get_member">>, FALSE)
             ELSE IF ~verify_hash(member.mail_address, member.tel, provided_verify)
             THEN R(403, <<"get_member">>, TRUE)
             ELSE [R(IF cancel.raised THEN 500 ELSE 200,
                     <<"get_member">> \o cancel.issued, TRUE)
                       EXCEPT !.forwarded = <<reservation_id>>]
    /\ UNCHANGED <<store, workers, probe, verdict, master, sor, choice_schedule_cache,
                   instructor_studio_map_cache, env, runs, req, pc, loc, calls, resp,
                   served, refresh_pending>>

\* Accounts whose stored tel is the requests' phone, its hyphenated form, another
StoredTels == {GuestPhone, <<"1", "-", "2">>, <<"2">>}

InitAuth ==
    /\ \E tel \in StoredTels :
        sor = [MkSor(MkSchedule(1, BookingShifts, <<>>)) EXCEPT !.tels = MkTels(tel)]
    /\ master = MkMaster(PlainProgram, <<>>, <<>>, EmptyStudioMap)
    /\ choice_schedule_cache = NoScheduleCache
    /\ instructor_studio_map_cache = NoMapCache
    /\ env = MkEnv(0, TRUE, <<TRUE, TRUE, TRUE>>)
    /\ runs = <<>>
    /\ req = NoRequest
    /\ pc = "idle"
    /\ loc = InitLoc
    /\ calls = <<>>
    /\ resp = NoResponse
    /\ served = 0
    /\ refresh_pending = 0
    /\ probe = NoProbe
    /\ verdict = NoVerdict
    /\ access = NoAccess
    /\ store = InitStore
    /\ workers = InitWorkers

NextAuth ==
    \/ Next
    \/ GetReservation
    \/ CancelReservation

SpecAuth == InitAuth /\ [][NextAuth]_vars

\* ------------------------------------------- the cache getters on their own
Scopes == {"studios", "programs", "studio_rooms", "instructor_studio_map", "resources", "choice_schedule"}

\* The time to live of a scope's entries
ScopeTtl(scope) ==
    CASE scope = "studios" -> STUDIOS_CACHE_TTL_SECONDS
      [] scope = "programs" -> PROGRAMS_CACHE_TTL_SECONDS
      [] scope = "studio_rooms" -> STUDIO_ROOMS_CACHE_TTL_SECONDS
      [] scope = "instructor_studio_map" -> INSTRUCTOR_CACHE_TTL_SECONDS
      [] scope = "resources" -> RESOURCES_CACHE_TTL_SECONDS
      [] scope = "choice_schedule" -> CHOICE_SCHEDULE_CACHE_TTL_SECONDS

\* The getter of a scope
GetCached(scope, cache, now, answer) ==
    CASE scope = "studios" -> get_cached_studios(cache, now, answer, "empty")
      [] scope = "programs" -> get_cached_programs(cache, now, answer, "empty")
      [] scope = "studio_rooms" -> get_cached_studio_rooms(cache, now, answer, "empty")
      [] scope = "instructor_studio_map" ->
            get_cached_instructor_studio_map(cache, now, answer, "empty")
      [] scope = "resources" -> get_cached_resources(cache, now, answer, "empty")
      [] scope = "choice_schedule" -> get_cached_choice_schedule(cache, now, answer, "empty")

\* Whether the upstream answers the fetch of a scope
FetchSucceeds(scope, answer) ==
    IF scope = "instructor_studio_map"
    THEN \E attempt \in 1..MaxRetries : answer.attempts[attempt]
    ELSE answer.ok

\* Upstream answers: the map is fetched up to MaxRetries times, the others once
FetchAnswers(scope) ==
    IF scope = "instructor_studio_map"
    THEN {[ok |-> FALSE, attempts |-> attempts, data |-> "new"] :
            attempts \in [1..MaxRetries -> BOOLEAN]}
    ELSE {[ok |-> ok, attempts |-> [attempt \in 1..MaxRetries |-> FALSE], data |-> "new"] :
            ok \in BOOLEAN}

\* Nothing cached, or a value cached at time 0 or 100
CachedBefore == {NoEntry, Entry("old", 0), Entry("old", 100)}

\* Reads one second before, at, and one second after the entry's expiry
ReadDelays == {0 - 1, 0, 1}

NoFetchProbe == [scope |-> "", cache |-> NoEntry, now |-> 0, resp |-> [ok |-> FALSE, attempts |-> <<>>, data |-> ""]]

InitFetch ==
    /\ master = MkMaster(PlainProgram, <<>>, <<>>, EmptyStudioMap)
    /\ sor = MkSor(MkSchedule(1, BookingShifts, <<>>))
    /\ choice_schedule_cache = NoScheduleCache
    /\ instructor_studio_map_cache = NoMapCache
    /\ env = MkEnv(0, TRUE, <<TRUE, TRUE, TRUE>>)
    /\ runs = <<>>
    /\ req = NoRequest
    /\ pc = "idle"
    /\ loc = InitLoc
    /\ calls = <<>>
    /\ resp = NoResponse
    /\ served = 0
    /\ refresh_pending = 0
    /\ probe = NoFetchProbe
    /\ verdict = NoVerdict
    /\ access = NoAccess
    /\ store = InitStore
    /\ workers = InitWorkers

\* One get of one scope, by one caller with no other caller running
CallGetCached ==
    /\ probe = NoFetchProbe
    /\ \E scope \in Scopes, cache \in CachedBefore, delay \in ReadDelays :
       \E answer \in FetchAnswers(scope) :
        LET now == cache.time + ScopeTtl(scope) + delay
        IN /\ probe' = [scope |-> scope, cache |-> cache, now |-> now, resp |-> answer]
           /\ verdict' = GetCached(scope, cache, now, answer)
    /\ UNCHANGED <<store, workers, master, sor, choice_schedule_cache, instructor_studio_map_cache,
                   env, runs, req, pc, loc, calls, resp, served, refresh_pending, access>>

NextFetch == CallGetCached

SpecFetch == InitFetch /\ [][NextFetch]_vars

\* ------------------------------------------------- refresh_all on its own
RefreshRooms == {1, 2}

RefreshDates == {1, 2}

\* The program filter of a range snapshot: 0 is none, 1 the studio's program
RefreshPrograms == {0, 1}

\* What the upstream answers to the schedule read of a (room, date): a schedule,
\* a schedule without studio_room_service, or an error
DayAnswers == {"new", "no_service", "failed"}

DayAnswer(day_answer) == [ok |-> day_answer # "failed", data |-> day_answer]

NoRangeEntry == [has |-> FALSE, data |-> [date \in RefreshDates |-> "none"], time |-> 0]

\* fetch_schedule of refresh_choice_schedule_range_cache: the read goes through
\* the per-date cache, and a failure is logged and gives None for the date
fetch_schedule(day_entry, now, day_answer) ==
    LET got == get_cached_choice_schedule(day_entry, now, DayAnswer(day_answer), "none")
    IN [schedule |-> IF got.raised THEN "none" ELSE got.value, cache |-> got.cache,
        fetched |-> got.fetched]

StoreRange_Complete(range_cache, studio_room_id, program_id, schedules, now) ==
    IF \E date \in RefreshDates : schedules[date] = "none"
    THEN range_cache
    ELSE [range_cache EXCEPT ![studio_room_id][program_id] = Entry(schedules, now)]

\* The result is stored under the range key with the time, whatever the dates hold
StoreRange(range_cache, studio_room_id, program_id, schedules, now) ==
    [range_cache EXCEPT ![studio_room_id][program_id] = Entry(schedules, now)]

\* refresh_choice_schedule_range_cache for one room, date range and program:
\* every date is read, the dates that could not be read are None in the
\* result, and the result is stored under the range key with the time.  The
\* lessons and the shift slots are read when a schedule names the studio, the
\* reservations when a program is given; their failures are logged.
refresh_choice_schedule_range_cache(studio_room_id, program_id, day_cache, range_cache, now, answers) ==
    LET fetched == [date \in RefreshDates |->
                      fetch_schedule(day_cache[studio_room_id][date], now,
                                     answers[studio_room_id][date])]
        schedules == [date \in RefreshDates |-> fetched[date].schedule]
        actual_studio_id ==
            \E date \in RefreshDates : schedules[date] \notin {"none", "no_service"}
    IN [schedules |-> schedules,
        upstream_reads |->
            {<<"get_choice_schedule", date>> : date \in {d \in RefreshDates : fetched[d].fetched}}
            \cup (IF actual_studio_id
                  THEN {<<"get_studio_lessons", 0>>}
                       \cup {<<"get_shift_slots", date>> : date \in RefreshDates}
                  ELSE {})
            \cup (IF program_id # 0 THEN {<<"get_reservations", 0>>} ELSE {}),
        day_cache |-> [day_cache EXCEPT ![studio_room_id] =
                          [date \in RefreshDates |-> fetched[date].cache]],
        range_cache |-> StoreRange(range_cache, studio_room_id, program_id, schedules, now)]

\* get_reservable_programs: the cached program list, empty when it cannot be read
get_reservable_programs(now, programs_answer) ==
    get_cached_programs(NoEntry, now, programs_answer, <<>>).value

\* The program snapshots of one room, program after program; a failure of one
\* is logged and the next is taken
RECURSIVE RefreshPrograms_Loop(_, _, _, _, _)
RefreshPrograms_Loop(studio_room_id, programs, acc, now, answers) ==
    IF programs = <<>> THEN acc
    ELSE LET done == refresh_choice_schedule_range_cache(
                         studio_room_id, Head(programs), acc.day_cache,
                         acc.range_cache, now, answers)
         IN RefreshPrograms_Loop(studio_room_id, Tail(programs),
                [acc EXCEPT !.day_cache = done.day_cache,
                            !.range_cache = done.range_cache,
                            !.range_cached = @ + 1],
                now, answers)

\* One room of refresh_all: the base snapshot, the attribute read of the first
\* date's studio_room_service, then the program snapshots; an exception is
\* appended to errors
RefreshRoom(studio_room_id, acc, now, programs_answer, answers) ==
    LET base == refresh_choice_schedule_range_cache(
                    studio_room_id, 0, acc.day_cache, acc.range_cache, now, answers)
        after == [acc EXCEPT !.day_cache = base.day_cache,
                             !.range_cache = base.range_cache,
                             !.range_cached = @ + 1]
    IN IF base.schedules[1] = "no_service"
       THEN [after EXCEPT !.errors = Append(@, studio_room_id)]
       ELSE RefreshPrograms_Loop(studio_room_id,
                get_reservable_programs(now, programs_answer), after, now, answers)

RECURSIVE RefreshRooms_Loop(_, _, _, _, _)
RefreshRooms_Loop(rooms, acc, now, programs_answer, answers) ==
    IF rooms = <<>> THEN acc
    ELSE RefreshRooms_Loop(Tail(rooms),
             RefreshRoom(Head(rooms), acc, now, programs_answer, answers),
             now, programs_answer, answers)

\* refresh_all_choice_schedule_cache: the room list, then room after room, and
\* the report
refresh_all_choice_schedule_cache(day_cache, range_cache, now, rooms_answer, programs_answer, answers) ==
    LET choice_rooms == get_cached_studio_rooms(NoEntry, now, rooms_answer, <<>>).value
        done == RefreshRooms_Loop(choice_rooms,
                    [day_cache |-> day_cache, range_cache |-> range_cache,
                     range_cached |-> 0, errors |-> <<>>],
                    now, programs_answer, answers)
    IN [success |-> Len(done.errors) = 0,
        rooms_count |-> Len(choice_rooms),
        range_cached |-> done.range_cached,
        errors_count |-> Len(done.errors),
        errors |-> done.errors,
        day_cache |-> done.day_cache,
        range_cache |-> done.range_cache]

\* Nothing cached for a (room, date), or a schedule cached at time 0
DayCachedBefore == {NoEntry, Entry("old", 0)}

\* A refresh one second before and at the expiry of what was cached at time 0
RefreshTimes == {CHOICE_SCHEDULE_CACHE_TTL_SECONDS - 1, CHOICE_SCHEDULE_CACHE_TTL_SECONDS}

NoRefreshProbe == [now |-> 0 - 1]

InitRefresh ==
    /\ master = MkMaster(PlainProgram, <<>>, <<>>, EmptyStudioMap)
    /\ sor = MkSor(MkSchedule(1, BookingShifts, <<>>))
    /\ choice_schedule_cache = NoScheduleCache
    /\ instructor_studio_map_cache = NoMapCache
    /\ env = MkEnv(0, TRUE, <<TRUE, TRUE, TRUE>>)
    /\ runs = <<>>
    /\ req = NoRequest
    /\ pc = "idle"
    /\ loc = InitLoc
    /\ calls = <<>>
    /\ resp = NoResponse
    /\ served = 0
    /\ refresh_pending = 0
    /\ probe = NoRefreshProbe
    /\ verdict = NoVerdict
    /\ access = NoAccess
    /\ store = InitStore
    /\ workers = InitWorkers

\* One run of refresh_all over what is cached and what the upstream answers
CallRefreshAll ==
    /\ probe = NoRefreshProbe
    /\ \E day_cache \in [RefreshRooms -> [RefreshDates -> DayCachedBefore]],
          answers \in [RefreshRooms -> [RefreshDates -> DayAnswers]],
          now \in RefreshTimes, rooms_ok \in BOOLEAN, programs_ok \in BOOLEAN :
        /\ probe' = [now |-> now, day_cache |-> day_cache, answers |-> answers,
                     rooms_ok |-> rooms_ok, programs_ok |-> programs_ok]
        /\ verdict' = refresh_all_choice_schedule_cache(
                          day_cache,
                          [room \in RefreshRooms |-> [program \in RefreshPrograms |-> NoRangeEntry]],
                          now,
                          [ok |-> rooms_ok, data |-> <<1, 2>>],
                          [ok |-> programs_ok, data |-> <<1>>],
                          answers)
    /\ UNCHANGED <<store, workers, master, sor, choice_schedule_cache, instructor_studio_map_cache,
                   env, runs, req, pc, loc, calls, resp, served, refresh_pending, access>>

NextRefresh == CallRefreshAll

SpecRefresh == InitRefresh /\ [][NextRefresh]_vars

\* ---------------------------------------------- the range read on its own
\* get_choice_schedule_range for one room and range without a program: a fresh
\* range snapshot is the answer; otherwise the range is refreshed, which reads
\* the staff map and the resources through their caches and every date through
\* the per-date cache
get_choice_schedule_range(range_cache, day_cache, map_entry, resources_entry, now, answers, masters_ok) ==
    LET cached == range_cache[1][0]
    IN IF cached.has /\ now - cached.time < CHOICE_SCHEDULE_RANGE_CACHE_TTL_SECONDS
       THEN [value |-> cached.data, range_cache |-> range_cache, day_cache |-> day_cache,
             refreshed |-> FALSE, upstream_reads |-> {}]
       ELSE LET done == refresh_choice_schedule_range_cache(1, 0, day_cache, range_cache,
                                                            now, answers)
                studio_map == get_cached_instructor_studio_map(
                                  map_entry, now,
                                  [attempts |-> [k \in 1..MaxRetries |-> masters_ok],
                                   data |-> "new"], "empty")
                resources == get_cached_resources(resources_entry, now,
                                                  [ok |-> masters_ok, data |-> "new"],
                                                  "empty")
            IN [value |-> done.schedules, range_cache |-> done.range_cache,
                day_cache |-> done.day_cache, refreshed |-> TRUE,
                upstream_reads |->
                    done.upstream_reads
                    \cup (IF studio_map.fetched THEN {<<"get_instructors", 0>>} ELSE {})
                    \cup (IF resources.fetched THEN {<<"get_resources", 0>>} ELSE {})]

\* Per-date entries: none, or a schedule with or without studio_room_service
\* cached at time 0 or 500
DayEntries == {NoEntry} \cup {Entry(data, time) : data \in {"old", "no_service"}, time \in {0, 500}}

\* The range read one second before, at, and one second after the expiry of a
\* range snapshot stored at time 0
RangeReadTimes == {CHOICE_SCHEDULE_RANGE_CACHE_TTL_SECONDS - 1, CHOICE_SCHEDULE_RANGE_CACHE_TTL_SECONDS, CHOICE_SCHEDULE_RANGE_CACHE_TTL_SECONDS + 1}

\* One range read over what is cached and what the upstream answers
CallGetRange ==
    /\ probe = NoFetchProbe
    /\ \E days \in [RefreshDates -> DayEntries], range_has \in BOOLEAN,
          map_has \in BOOLEAN, resources_has \in BOOLEAN, masters_ok \in BOOLEAN,
          now \in RangeReadTimes, day_answers \in [RefreshDates -> DayAnswers] :
        LET day_cache == [room \in RefreshRooms |->
                            IF room = 1 THEN days ELSE [date \in RefreshDates |-> NoEntry]]
            stored == IF range_has
                      THEN Entry([date \in RefreshDates |-> "old"], 0)
                      ELSE NoRangeEntry
            range_cache == [room \in RefreshRooms |-> [program \in RefreshPrograms |->
                              IF room = 1 /\ program = 0 THEN stored ELSE NoRangeEntry]]
            map_entry == IF map_has THEN Entry("old", now) ELSE NoEntry
            resources_entry == IF resources_has THEN Entry("old", now) ELSE NoEntry
            answers == [room \in RefreshRooms |-> day_answers]
        IN /\ probe' = [scope |-> "choice_schedule_range", cache |-> stored, now |-> now,
                        days |-> days, answers |-> day_answers, map_has |-> map_has,
                        resources_has |-> resources_has]
           /\ verdict' = get_choice_schedule_range(range_cache, day_cache, map_entry,
                                                   resources_entry, now, answers,
                                                   masters_ok)
    /\ UNCHANGED <<store, workers, master, sor, choice_schedule_cache,
                   instructor_studio_map_cache, env, runs, req, pc, loc, calls, resp,
                   served, refresh_pending, access>>

NextRange == CallGetCached \/ CallGetRange

SpecRange == InitFetch /\ [][NextRange]_vars

\* --------------------------------------------------- invalidate on its own
\* Dates are texts.  The dates here lie in one month, so two date texts differ
\* in the day only, which is written with or without the leading zero:
\* strptime reads both, and the cache keys carry the text as it was given.
Digits == <<"0", "1", "2", "3", "4", "5", "6", "7", "8", "9">>

DigitValue(c) == (CHOOSE k \in 1..Len(Digits) : Digits[k] = c) - 1

\* datetime.strptime(text, "%Y-%m-%d"): the day the text names
ParseDay(text) ==
    IF Len(text) = 1 THEN DigitValue(text[1])
    ELSE 10 * DigitValue(text[1]) + DigitValue(text[2])

\* a <= b on Python strings
RECURSIVE TextLeq(_, _)
TextLeq(a, b) ==
    IF a = <<>> THEN TRUE
    ELSE IF b = <<>> THEN FALSE
    ELSE IF Head(a) = Head(b) THEN TextLeq(Tail(a), Tail(b))
    ELSE DigitValue(Head(a)) < DigitValue(Head(b))

\* invalidate_choice_schedule_cache: the per-date key is deleted from the value
\* and the time dict, and so is every range key of the room with
\* date_from <= date <= date_to; true when a per-date value or a range key was
\* there.  A per-date key is <<room, date>>, a range key
\* <<room, date_from, date_to, program>>.
invalidate_choice_schedule_cache(caches, studio_room_id, date) ==
    LET cache_key == <<studio_room_id, date>>
        keys_to_delete ==
            {key \in caches.range_cache :
                /\ key[1] = studio_room_id
                /\ TextLeq(key[2], date)
                /\ TextLeq(date, key[3])}
    IN [invalidated |-> cache_key \in caches.schedule_cache \/ keys_to_delete # {},
        caches |-> [caches EXCEPT !.schedule_cache = @ \ {cache_key},
                                  !.schedule_cache_time = @ \ {cache_key},
                                  !.range_cache = @ \ keys_to_delete,
                                  !.range_cache_time = @ \ keys_to_delete]]

\* The date texts of the reads and bookings: the 7th to the 10th
DateTexts == {<<"0", "7">>, <<"7">>, <<"0", "8">>, <<"8">>, <<"0", "9">>, <<"9">>, <<"1", "0">>}

\* What the per-date and the range cache may hold: snapshots of two rooms, of
\* ranges from the 7th to the 9th and from the 9th to the 10th, with and
\* without a program
DayKeys == {<<1, <<"0", "7">>>>, <<1, <<"7">>>>, <<1, <<"0", "8">>>>, <<2, <<"0", "7">>>>}

RangeSpans == {<<<<"0", "7">>, <<"0", "9">>>>, <<<<"7">>, <<"9">>>>, <<<<"0", "9">>, <<"1", "0">>>>}

RangeKeys == {<<1, span[1], span[2], program>> : span \in RangeSpans, program \in {0, 1}} \cup {<<2, <<"0", "7">>, <<"0", "9">>, 0>>}

\* One invalidation over what the caches hold; values and times are under the
\* same keys, as the writes leave them
CallInvalidate ==
    /\ probe = NoFetchProbe
    /\ \E day_keys \in SUBSET DayKeys, range_keys \in SUBSET RangeKeys,
          date \in DateTexts \ {<<"9">>} :
        LET caches == [schedule_cache |-> day_keys, schedule_cache_time |-> day_keys,
                       range_cache |-> range_keys, range_cache_time |-> range_keys,
                       studios |-> Entry("old", 0), programs |-> Entry("old", 0),
                       studio_rooms |-> Entry("old", 0), resources |-> Entry("old", 0),
                       instructor_studio_map |-> Entry("old", 0)]
        IN /\ Cardinality(range_keys) <= 2
           /\ probe' = [scope |-> "invalidate", caches |-> caches,
                        studio_room_id |-> 1, date |-> date]
           /\ verdict' = invalidate_choice_schedule_cache(caches, 1, date)
    /\ UNCHANGED <<store, workers, master, sor, choice_schedule_cache,
                   instructor_studio_map_cache, env, runs, req, pc, loc, calls, resp,
                   served, refresh_pending, access>>

NextInvalidate == CallInvalidate

SpecInvalidate == InitFetch /\ [][NextInvalidate]_vars

\* ------------------------------- the schedule cache under concurrent threads
\* The cache dicts are module globals without a lock: a thread can be
\* suspended between any two statements, and the steps below are the
\* statements that read or write a dict, the upstream or the clock.
HandlerVars == <<master, sor, choice_schedule_cache, instructor_studio_map_cache, env, runs, req, pc, loc, calls, resp, served, refresh_pending, probe, verdict, access>>

Fresh(cached_data, cached_time, now) ==
    /\ cached_data.has
    /\ cached_time.has
    /\ now - cached_time.data < CHOICE_SCHEDULE_CACHE_TTL_SECONDS

\* What a worker does when get_cached_choice_schedule returns cell to it, or
\* raises (cell is NoCell): the schedule endpoint answers; fetch_schedule of
\* the range refresh keeps the schedule, or None, for the range snapshot
AfterGet(worker, cell, raised) ==
    IF worker.task = "get"
    THEN [worker EXCEPT !.pc = "done", !.result = cell, !.raised = raised]
    ELSE [worker EXCEPT !.pc = "r_write_value", !.schedule = cell]

\* A request for the schedule of the date, or of the range, arrives
StartReader(w) ==
    /\ workers[w].pc = "idle"
    /\ store.started < MaxTasks
    /\ \E task \in {"get", "range"} :
        workers' = [workers EXCEPT ![w] =
            [IdleWorker EXCEPT !.task = task,
                               !.pc = IF task = "get" THEN "g_read_value" ELSE "q_read_value",
                               !.now = store.clock,
                               !.floor = store.settled]]
    /\ store' = [store EXCEPT !.started = @ + 1]
    /\ UNCHANGED HandlerVars

\* get_choice_schedule_range: cached_data = _choice_schedule_range_cache.get(key)
ReadRangeValue(w) ==
    /\ workers[w].pc = "q_read_value"
    /\ workers' = [workers EXCEPT ![w].cached_data = store.range_cache,
                                  ![w].pc = "q_read_time"]
    /\ UNCHANGED <<store, HandlerVars>>

\* cached_time = _choice_schedule_range_cache_time.get(key), and the check:
\* a fresh snapshot is the answer, else the range is refreshed
ReadRangeTime(w) ==
    /\ workers[w].pc = "q_read_time"
    /\ workers' = [workers EXCEPT ![w] =
            IF Fresh(@.cached_data, store.range_cache_time, @.now)
            THEN [@ EXCEPT !.pc = "done", !.result = workers[w].cached_data]
            ELSE [@ EXCEPT !.pc = "g_read_value", !.now = store.clock]]
    /\ UNCHANGED <<store, HandlerVars>>

\* get_cached_choice_schedule: cached_data = _choice_schedule_cache.get(key)
ReadValue(w) ==
    /\ workers[w].pc = "g_read_value"
    /\ workers' = [workers EXCEPT ![w].cached_data = store.schedule_cache,
                                  ![w].pc = "g_read_time"]
    /\ UNCHANGED <<store, HandlerVars>>

\* cached_time = _choice_schedule_cache_time.get(key), and the check
ReadTime(w) ==
    /\ workers[w].pc = "g_read_time"
    /\ workers' = [workers EXCEPT ![w] =
            IF Fresh(@.cached_data, store.schedule_cache_time, @.now)
            THEN AfterGet(@, @.cached_data, FALSE)
            ELSE [@ EXCEPT !.pc = "g_fetch", !.cached_time = store.schedule_cache_time]]
    /\ UNCHANGED <<store, HandlerVars>>

\* client.get_choice_schedule answers with what the upstream holds now, or
\* fails: then the stale value is returned, or the exception raised again
Fetch(w) ==
    /\ workers[w].pc = "g_fetch"
    /\ \E ok \in BOOLEAN :
        IF ok
        THEN /\ workers' = [workers EXCEPT
                    ![w].schedule = Cell(store.upstream, store.fetches + 1),
                    ![w].pc = "g_write_value"]
             /\ store' = [store EXCEPT !.fetches = @ + 1]
        ELSE /\ workers' = [workers EXCEPT ![w] =
                    AfterGet(@, @.cached_data, ~@.cached_data.has)]
             /\ UNCHANGED store
    /\ UNCHANGED HandlerVars

\* _choice_schedule_cache[cache_key] = schedule
WriteValue(w) ==
    /\ workers[w].pc = "g_write_value"
    /\ store' = [store EXCEPT !.schedule_cache = workers[w].schedule]
    /\ workers' = [workers EXCEPT ![w].pc = "g_write_time"]
    /\ UNCHANGED HandlerVars

\* _choice_schedule_cache_time[cache_key] = now, and the return
WriteTime(w) ==
    /\ workers[w].pc = "g_write_time"
    /\ store' = [store EXCEPT
            !.schedule_cache_time = Cell(workers[w].now, workers[w].schedule.fetch)]
    /\ workers' = [workers EXCEPT ![w] = AfterGet(@, @.schedule, FALSE)]
    /\ UNCHANGED HandlerVars

\* refresh_choice_schedule_range_cache: _choice_schedule_range_cache[key] =
\* response_data, built from the date's schedule, None when it was not read
WriteRangeValue(w) ==
    /\ workers[w].pc = "r_write_value"
    /\ LET response_data ==
              Cell(IF workers[w].schedule.has THEN workers[w].schedule.data ELSE 0 - 1,
                   store.fetches + 1)
       IN /\ store' = [store EXCEPT !.range_cache = response_data, !.fetches = @ + 1]
          /\ workers' = [workers EXCEPT ![w].schedule = response_data,
                                        ![w].pc = "r_write_time"]
    /\ UNCHANGED HandlerVars

\* _choice_schedule_range_cache_time[key] = datetime.now(), and the return;
\* with it the cache step of a booking has run
WriteRangeTime(w) ==
    /\ workers[w].pc = "r_write_time"
    /\ store' = [store EXCEPT
            !.range_cache_time = Cell(store.clock, workers[w].schedule.fetch),
            !.settled = IF workers[w].task = "book" /\ workers[w].version > @
                        THEN workers[w].version ELSE @]
    /\ workers' = [workers EXCEPT ![w].pc = "done", ![w].result = workers[w].schedule]
    /\ UNCHANGED HandlerVars

\* A free-slot booking reaches its commit
StartBooking(w) ==
    /\ workers[w].pc = "idle"
    /\ store.started < MaxTasks
    /\ store.upstream < MaxCommits
    /\ workers' = [workers EXCEPT ![w] = [IdleWorker EXCEPT !.task = "book", !.pc = "b_commit"]]
    /\ store' = [store EXCEPT !.started = @ + 1]
    /\ UNCHANGED HandlerVars

\* create_choice_reservation: the commit succeeds, and refresh_cache_background
\* is started in a thread of its own
Commit(w) ==
    /\ workers[w].pc = "b_commit"
    /\ store' = [store EXCEPT !.upstream = @ + 1]
    /\ workers' = [workers EXCEPT ![w].version = store.upstream + 1,
                                  ![w].pc = "i_test_value"]
    /\ UNCHANGED HandlerVars

\* invalidate_choice_schedule_cache: if cache_key in _choice_schedule_cache
TestValue(w) ==
    /\ workers[w].pc = "i_test_value"
    /\ workers' = [workers EXCEPT ![w].pc =
            IF store.schedule_cache.has THEN "i_del_value" ELSE "i_test_time"]
    /\ UNCHANGED <<store, HandlerVars>>

\* del _choice_schedule_cache[cache_key]; a key that another thread has
\* deleted meanwhile raises KeyError, which ends refresh_cache_background
DelValue(w) ==
    /\ workers[w].pc = "i_del_value"
    /\ IF store.schedule_cache.has
       THEN /\ store' = [store EXCEPT !.schedule_cache = NoCell]
            /\ workers' = [workers EXCEPT ![w].pc = "i_test_time"]
       ELSE /\ workers' = [workers EXCEPT ![w].pc = "done", ![w].raised = TRUE]
            /\ UNCHANGED store
    /\ UNCHANGED HandlerVars

\* if cache_key in _choice_schedule_cache_time
TestTime(w) ==
    /\ workers[w].pc = "i_test_time"
    /\ workers' = [workers EXCEPT ![w].pc =
            IF store.schedule_cache_time.has THEN "i_del_time" ELSE "i_scan"]
    /\ UNCHANGED <<store, HandlerVars>>

\* del _choice_schedule_cache_time[cache_key]
DelTime(w) ==
    /\ workers[w].pc = "i_del_time"
    /\ IF store.schedule_cache_time.has
       THEN /\ store' = [store EXCEPT !.schedule_cache_time = NoCell]
            /\ workers' = [workers EXCEPT ![w].pc = "i_scan"]
       ELSE /\ workers' = [workers EXCEPT ![w].pc = "done", ![w].raised = TRUE]
            /\ UNCHANGED store
    /\ UNCHANGED HandlerVars

\* The range keys of the room that cover the date are collected; with none the
\* invalidation is over and the range refresh begins
ScanRange(w) ==
    /\ workers[w].pc = "i_scan"
    /\ workers' = [workers EXCEPT ![w] =
            IF store.range_cache.has
            THEN [@ EXCEPT !.pc = "i_pop_value"]
            ELSE [@ EXCEPT !.pc = "g_read_value", !.now = store.clock]]
    /\ UNCHANGED <<store, HandlerVars>>

\* _choice_schedule_range_cache.pop(key, None)
PopRangeValue(w) ==
    /\ workers[w].pc = "i_pop_value"
    /\ store' = [store EXCEPT !.range_cache = NoCell]
    /\ workers' = [workers EXCEPT ![w].pc = "i_pop_time"]
    /\ UNCHANGED HandlerVars

\* _choice_schedule_range_cache_time.pop(key, None); the range refresh begins
PopRangeTime(w) ==
    /\ workers[w].pc = "i_pop_time"
    /\ store' = [store EXCEPT !.range_cache_time = NoCell]
    /\ workers' = [workers EXCEPT ![w].pc = "g_read_value", ![w].now = store.clock]
    /\ UNCHANGED HandlerVars

\* The request is answered, or the background thread ends
Finish(w) ==
    /\ workers[w].pc = "done"
    /\ workers' = [workers EXCEPT ![w] = IdleWorker]
    /\ UNCHANGED <<store, HandlerVars>>

\* The time to live of the entries passes
Tick ==
    /\ store.clock < MaxTicks * CHOICE_SCHEDULE_CACHE_TTL_SECONDS
    /\ store' = [store EXCEPT !.clock = @ + CHOICE_SCHEDULE_CACHE_TTL_SECONDS]
    /\ UNCHANGED <<workers, HandlerVars>>

InitCache ==
    /\ master = MkMaster(PlainProgram, <<>>, <<>>, EmptyStudioMap)
    /\ sor = MkSor(MkSchedule(1, BookingShifts, <<>>))
    /\ choice_schedule_cache = NoScheduleCache
    /\ instructor_studio_map_cache = NoMapCache
    /\ env = MkEnv(0, TRUE, <<TRUE, TRUE, TRUE>>)
    /\ runs = <<>>
    /\ req = NoRequest
    /\ pc = "idle"
    /\ loc = InitLoc
    /\ calls = <<>>
    /\ resp = NoResponse
    /\ served = 0
    /\ refresh_pending = 0
    /\ probe = NoTokenProbe
    /\ verdict = NoVerdict
    /\ access = NoAccess
    /\ store = InitStore
    /\ workers = InitWorkers

NextCache ==
    \/ Tick
    \/ \E w \in Workers :
        \/ StartReader(w)
        \/ ReadRangeValue(w)
        \/ ReadRangeTime(w)
        \/ ReadValue(w)
        \/ ReadTime(w)
        \/ Fetch(w)
        \/ WriteValue(w)
        \/ WriteTime(w)
        \/ WriteRangeValue(w)
        \/ WriteRangeTime(w)
        \/ StartBooking(w)
        \/ Commit(w)
        \/ TestValue(w)
        \/ DelValue(w)
        \/ TestTime(w)
        \/ DelTime(w)
        \/ ScanRange(w)
        \/ PopRangeValue(w)
        \/ PopRangeTime(w)
        \/ Finish(w)

SpecCache == InitCache /\ [][NextCache]_vars

\* ------------------------------------------ the available-instructors listing
\* GET /api/instructors/available.  start_datetime is built by strptime without
\* a time zone, and the times of the snapshot are parsed by fromisoformat as
\* they are: when they carry an offset, comparing them with start_datetime
\* raises TypeError, which the loops catch, and the entry is skipped.  aware
\* says whether the upstream writes its times with an offset.
ListingReservedIds(reserved_instructors, start_datetime, end_datetime, aware) ==
    {reserved_instructors[k].entity_id : k \in
        {j \in DOMAIN reserved_instructors :
            /\ HasStamp(reserved_instructors[j].start_at)
            /\ HasStamp(reserved_instructors[j].end_at)
            /\ ~aware
            /\ start_datetime < reserved_instructors[j].end_at.t
            /\ end_datetime > reserved_instructors[j].start_at.t}}

\* The shift test of the listing
ListingShiftCovers(instructor, start_datetime, aware) ==
    /\ HasStamp(instructor.start_at) /\ HasStamp(instructor.end_at)
    /\ ~aware
    /\ instructor.start_at.t <= start_datetime
    /\ start_datetime < instructor.end_at.t

get_available_instructors(schedule, start_datetime, duration_minutes, aware) ==
    LET end_datetime == start_datetime + duration_minutes
        reserved_instructor_ids ==
            ListingReservedIds(schedule.reservation_assign_instructor, start_datetime,
                               end_datetime, aware)
    IN Ids(SelectSeq(schedule.shift_instructor, LAMBDA instructor :
           /\ ListingShiftCovers(instructor, start_datetime, aware)
           /\ instructor.instructor_id \notin reserved_instructor_ids))

\* The listing and step 4 of the booking for one snapshot, start and duration:
\* a program without buffers and without a staff selection, no shift slots, no
\* studio associations.  The times of the snapshot are JST wall-clock times,
\* written with the JST offset or, on a server whose zone is JST, without one.
CallListing ==
    /\ probe = NoFetchProbe
    /\ \E aware \in BOOLEAN, start_at \in StartChoices, minutes \in ServiceMinutes,
          shifts \in ShiftLists(JST_OFFSET),
          reserved \in ReservedLists(JST_OFFSET, {"RESERVE"}) :
        LET schedule == MkSchedule(1, shifts, reserved)
            program == MkProgram(minutes, 0, 0, <<>>)
            resolved ==
                ResolveInstructors(program, start_at, [has |-> TRUE, data |-> schedule],
                                   [has |-> TRUE, data |-> EmptyStudioMap],
                                   [schedule_age |-> 0,
                                    schedule_resp |-> [ok |-> TRUE, data |-> schedule],
                                    map_age |-> 0,
                                    map_resp |-> [attempts |-> <<TRUE, TRUE, TRUE>>,
                                                  data |-> EmptyStudioMap],
                                    slots_resp |-> [ok |-> TRUE, list |-> <<>>]])
        IN /\ probe' = [scope |-> "listing", aware |-> aware, start_at |-> start_at,
                        minutes |-> minutes, schedule |-> schedule]
           /\ verdict' = [listing |-> get_available_instructors(schedule, start_at,
                                                                minutes, aware),
                          resolver |-> resolved.available]
    /\ UNCHANGED <<store, workers, master, sor, choice_schedule_cache,
                   instructor_studio_map_cache, env, runs, req, pc, loc, calls, resp,
                   served, refresh_pending, access>>

NextListing == CallListing

SpecListing == InitFetch /\ [][NextListing]_vars

\* ------------------------------------- the adapter client under several threads
\* Times of the client are in ticks of a tenth of a second
TicksPerSecond == 10

\* self._rate_limits: requests per second of each verb
RateLimits == [GET |-> 10, POST |-> 2, PUT |-> 2, DELETE |-> 2]

Verbs == {"GET", "POST"}

\* min_interval = 1.0 / limit
MinInterval(method) == TicksPerSecond \div RateLimits[method]

\* The clock when the client is made, and the ticks that pass in a run of two
\* threads and in a run of one
StartClock == 10
MaxClientTicks == 5
MaxRetryTicks == 16

\* The retry-after header of a 429 answer, in seconds
RetryAfters == {0, 1}

\* The shared client: self._last_request_time (0 for a verb not yet used), the
\* clock, whether the refresh credentials are set, and the HTTP requests sent
\* so far with the time at which the limiter let each through
InitClientStore(credentials) ==
    [last_request_time |-> [method \in DOMAIN RateLimits |-> 0], clock |-> StartClock,
     credentials |-> credentials, sent |-> <<>>]

\* A thread before it calls the client
IdleCaller ==
    [pc |-> "idle", method |-> "", retry_count |-> 0, now |-> 0, wake |-> 0,
     api_requests |-> 0, token_requests |-> 0, waited |-> <<>>, outcome |-> ""]

\* client.get / post / put / delete: _request with retry_count = 1
StartRequest(w) ==
    /\ workers[w].pc = "idle"
    /\ \E method \in Verbs :
        workers' = [workers EXCEPT ![w] =
            [IdleCaller EXCEPT !.pc = "rate_now", !.method = method, !.retry_count = 1]]
    /\ UNCHANGED <<store, HandlerVars>>

\* _rate_limit: now = time.time()
RateLimitNow(w) ==
    /\ workers[w].pc = "rate_now"
    /\ workers' = [workers EXCEPT ![w].pc = "rate_last", ![w].now = store.clock]
    /\ UNCHANGED <<store, HandlerVars>>

\* last_time is read and, when elapsed < min_interval, the thread sleeps for
\* min_interval - elapsed from now on
RateLimitLast(w) ==
    /\ workers[w].pc = "rate_last"
    /\ LET min_interval == MinInterval(workers[w].method)
           elapsed == workers[w].now - store.last_request_time[workers[w].method]
       IN workers' = [workers EXCEPT ![w].pc = "rate_stamp",
                                     ![w].wake = IF elapsed < min_interval
                                                 THEN store.clock + (min_interval - elapsed)
                                                 ELSE store.clock]
    /\ UNCHANGED <<store, HandlerVars>>

HandleResponse_Always(caller, status, retry_after, credentials, clock) ==
    CASE status = 200 -> [caller EXCEPT !.pc = "done", !.outcome = "ok"]
      [] status = 401 ->
            IF credentials THEN [caller EXCEPT !.pc = "refresh"]
            ELSE [caller EXCEPT !.pc = "done", !.outcome = "AuthenticationError"]
      [] status = 429 ->
            [caller EXCEPT !.pc = "backoff",
                           !.wake = clock + retry_after * TicksPerSecond,
                           !.waited = Append(@, retry_after)]
      [] OTHER -> [caller EXCEPT !.pc = "done", !.outcome = "HacomonoAPIError"]

\* What _handle_response makes of a status for a thread: the result, the
\* retry after a 429 with a retry left, or the token refresh after a 401 with
\* the credentials set
HandleResponse(caller, status, retry_after, credentials, clock) ==
    CASE status = 200 -> [caller EXCEPT !.pc = "done", !.outcome = "ok"]
      [] status = 401 ->
            IF credentials THEN [caller EXCEPT !.pc = "refresh"]
            ELSE [caller EXCEPT !.pc = "done", !.outcome = "AuthenticationError"]
      [] status = 429 ->
            IF caller.retry_count > 0
            THEN [caller EXCEPT !.pc = "backoff",
                                !.wake = clock + retry_after * TicksPerSecond,
                                !.waited = Append(@, retry_after)]
            ELSE [caller EXCEPT !.pc = "done", !.outcome = "RateLimitError"]
      [] OTHER -> [caller EXCEPT !.pc = "done", !.outcome = "HacomonoAPIError"]

\* The sleep is over: self._last_request_time[key] = time.time(), and
\* requests.request sends the request, which the upstream answers
SendRequest(w) ==
    /\ workers[w].pc = "rate_stamp"
    /\ store.clock >= workers[w].wake
    /\ store' = [store EXCEPT !.last_request_time[workers[w].method] = store.clock,
                              !.sent = Append(@, [method |-> workers[w].method,
                                                  time |-> store.clock])]
    /\ \E status \in {200, 401, 429, 500}, retry_after \in RetryAfters :
        /\ status # 429 => retry_after = 0
        /\ workers' = [workers EXCEPT ![w] =
              HandleResponse([@ EXCEPT !.api_requests = @ + 1, !.now = 0, !.wake = 0],
                             status, retry_after, store.credentials, store.clock)]
    /\ UNCHANGED HandlerVars

\* _refresh_access_token posts to the token URL; a refusal raises
\* AuthenticationError, a new token raises TokenRefreshedError, which _request
\* answers with the retry when one is left
RefreshAccessToken(w) ==
    /\ workers[w].pc = "refresh"
    /\ \E ok \in BOOLEAN :
        workers' = [workers EXCEPT ![w] =
            LET posted == [@ EXCEPT !.token_requests = @ + 1]
            IN IF ~ok THEN [posted EXCEPT !.pc = "done", !.outcome = "AuthenticationError"]
               ELSE IF posted.retry_count > 0
               THEN [posted EXCEPT !.pc = "rate_now", !.retry_count = @ - 1]
               ELSE [posted EXCEPT !.pc = "done", !.outcome = "TokenRefreshedError"]]
    /\ UNCHANGED <<store, HandlerVars>>

\* time.sleep(e.retry_after) is over: _request is called with retry_count - 1
Backoff(w) ==
    /\ workers[w].pc = "backoff"
    /\ store.clock >= workers[w].wake
    /\ workers' = [workers EXCEPT ![w].pc = "rate_now", ![w].retry_count = @ - 1,
                                  ![w].wake = 0]
    /\ UNCHANGED <<store, HandlerVars>>

\* A tenth of a second passes
Elapse(ticks) ==
    /\ store.clock < StartClock + ticks
    /\ store' = [store EXCEPT !.clock = @ + 1]
    /\ UNCHANGED <<workers, HandlerVars>>

ClientTick == Elapse(MaxClientTicks)

RetryTick == Elapse(MaxRetryTicks)

InitClient ==
    /\ master = MkMaster(PlainProgram, <<>>, <<>>, EmptyStudioMap)
    /\ sor = MkSor(MkSchedule(1, BookingShifts, <<>>))
    /\ choice_schedule_cache = NoScheduleCache
    /\ instructor_studio_map_cache = NoMapCache
    /\ env = MkEnv(0, TRUE, <<TRUE, TRUE, TRUE>>)
    /\ runs = <<>>
    /\ req = NoRequest
    /\ pc = "idle"
    /\ loc = InitLoc
    /\ calls = <<>>
    /\ resp = NoResponse
    /\ served = 0
    /\ refresh_pending = 0
    /\ probe = NoProbe
    /\ verdict = NoVerdict
    /\ access = NoAccess
    /\ \E credentials \in BOOLEAN : store = InitClientStore(credentials)
    /\ workers = [w \in Workers |-> IdleCaller]

NextClient ==
    \/ \E w \in Workers :
        \/ StartRequest(w)
        \/ RateLimitNow(w)
        \/ RateLimitLast(w)
        \/ SendRequest(w)
        \/ RefreshAccessToken(w)
        \/ Backoff(w)
    \/ ClientTick

SpecClient == InitClient /\ [][NextClient]_vars

\* One thread and one adapter request
NextRetry ==
    \/ StartRequest(1)
    \/ RateLimitNow(1)
    \/ RateLimitLast(1)
    \/ SendRequest(1)
    \/ RefreshAccessToken(1)
    \/ Backoff(1)
    \/ RetryTick

SpecRetry == InitClient /\ [][NextRetry]_vars

\* ----------------------------------------------- the refresh threads' fan-out
\* ThreadPoolExecutor(max_workers=7) of the two fan-out steps
max_workers == 7

\* The dates of a refresh: refresh_cache_for_webhook asks for 7 days, the
\* manual refresh for the days of its query
WebhookDays == 7
ManualDays == 8

\* The rooms a refresh goes through, one after the other
RoomsPerRefresh == 2

\* What refresh_all does for a room: the base range (every date's schedule in
\* the pool, the lessons, every date's shift slots in the pool), then the
\* range of the room's program, whose dates are read from the per-date cache
\* (the lessons, the shift slots in the pool, the program's reservations)
Phases == <<"schedules", "lessons", "slots", "program_lessons", "program_slots", "program_reservations">>

FanOutPhases == {"schedules", "slots", "program_slots"}

LastBasePhase == 3

\* A refresh that has not been started
IdleRefresh ==
    [pc |-> "idle", background |-> FALSE, days |-> 0, room |-> 0, phase |-> 0,
     queued |-> 0, in_flight |-> 0, logged |-> FALSE, outcome |-> ""]

PoolFree_Unbounded(refresh) == TRUE

\* The pool has a thread to spare for a queued date
PoolFree(refresh) == refresh.in_flight < max_workers

\* A phase of a room begins: a fan-out step submits every date to its pool, any
\* other step is one upstream call
BeginPhase(refresh, room, phase) ==
    [refresh EXCEPT !.pc = "room", !.room = room, !.phase = phase,
                    !.queued = IF Phases[phase] \in FanOutPhases THEN refresh.days ELSE 0,
                    !.in_flight = IF Phases[phase] \in FanOutPhases THEN 0 ELSE 1]

NextRoom_Again(refresh) == BeginPhase(refresh, refresh.room, 1)

\* The room is over, with or without an error: the next room, or the result
NextRoom(refresh) ==
    IF refresh.room < RoomsPerRefresh
    THEN BeginPhase(refresh, refresh.room + 1, 1)
    ELSE [refresh EXCEPT !.pc = "done", !.outcome = "completed"]

\* hacomono_webhook: Thread(target=refresh_cache_for_webhook).start() and the
\* 200 reply
StartRefreshThread(r) ==
    /\ workers[r].pc = "idle"
    /\ workers' = [workers EXCEPT ![r] =
          [IdleRefresh EXCEPT !.pc = "client", !.background = TRUE, !.days = WebhookDays]]
    /\ store' = [store EXCEPT !.notified = @ + 1, !.answered = @ + 1]
    /\ UNCHANGED HandlerVars

\* POST /api/cache/refresh: the refresh runs inside the request
StartManualRefresh(r) ==
    /\ workers[r].pc = "idle"
    /\ workers' = [workers EXCEPT ![r] =
          [IdleRefresh EXCEPT !.pc = "client", !.days = ManualDays]]
    /\ UNCHANGED <<store, HandlerVars>>

\* get_hacomono_client() inside the try block, then get_cached_studio_rooms;
\* an exception here is caught and logged by the caller's except branch
GetClient(r) ==
    /\ workers[r].pc = "client"
    /\ \E ok \in BOOLEAN :
        workers' = [workers EXCEPT ![r] =
            IF ok THEN [@ EXCEPT !.pc = "rooms", !.in_flight = 1]
            ELSE [@ EXCEPT !.pc = "done", !.outcome = "failed", !.logged = TRUE]]
    /\ UNCHANGED <<store, HandlerVars>>

\* The room list arrives, or the fetch fails and the list is empty: with no
\* rooms the refresh is over
RoomsReturn(r) ==
    /\ workers[r].pc = "rooms"
    /\ \E ok \in BOOLEAN :
        workers' = [workers EXCEPT ![r] =
            IF ok THEN BeginPhase([@ EXCEPT !.in_flight = 0], 1, 1)
            ELSE [@ EXCEPT !.pc = "done", !.in_flight = 0, !.outcome = "completed",
                           !.logged = TRUE]]
    /\ UNCHANGED <<store, HandlerVars>>

\* A pool thread takes a queued date and calls the upstream
SubmitTask(r) ==
    /\ workers[r].pc = "room"
    /\ workers[r].queued > 0
    /\ PoolFree(workers[r])
    /\ workers' = [workers EXCEPT ![r].queued = @ - 1, ![r].in_flight = @ + 1]
    /\ UNCHANGED <<store, HandlerVars>>

\* An upstream call returns or fails; the failure is logged where it is caught
TaskReturns(r) ==
    /\ workers[r].pc = "room"
    /\ workers[r].in_flight > 0
    /\ \E ok \in BOOLEAN :
        workers' = [workers EXCEPT ![r].in_flight = @ - 1,
                                   ![r].logged = @ \/ ~ok]
    /\ UNCHANGED <<store, HandlerVars>>

\* The step is over when its calls have returned.  After the base range the
\* studio id is read from the first schedule, which raises when the schedule
\* has no studio_room_service: the room's error is recorded and the next room
\* is taken
EndPhase(r) ==
    /\ workers[r].pc = "room"
    /\ workers[r].queued = 0
    /\ workers[r].in_flight = 0
    /\ \E attribute_error \in BOOLEAN :
        /\ attribute_error => workers[r].phase = LastBasePhase
        /\ workers' = [workers EXCEPT ![r] =
              IF attribute_error THEN NextRoom([@ EXCEPT !.logged = TRUE])
              ELSE IF @.phase = Len(Phases) THEN NextRoom(@)
              ELSE BeginPhase(@, @.room, @.phase + 1)]
    /\ UNCHANGED <<store, HandlerVars>>

\* The manual refresh request is answered when its refresh has ended
AnswerManualRefresh(r) ==
    /\ workers[r].pc = "done"
    /\ ~workers[r].background
    /\ workers' = [workers EXCEPT ![r].background = TRUE]
    /\ store' = [store EXCEPT !.answered = @ + 1]
    /\ UNCHANGED HandlerVars

InitFanOut ==
    /\ master = MkMaster(PlainProgram, <<>>, <<>>, EmptyStudioMap)
    /\ sor = MkSor(MkSchedule(1, BookingShifts, <<>>))
    /\ choice_schedule_cache = NoScheduleCache
    /\ instructor_studio_map_cache = NoMapCache
    /\ env = MkEnv(0, TRUE, <<TRUE, TRUE, TRUE>>)
    /\ runs = <<>>
    /\ req = NoRequest
    /\ pc = "idle"
    /\ loc = InitLoc
    /\ calls = <<>>
    /\ resp = NoResponse
    /\ served = 0
    /\ refresh_pending = 0
    /\ probe = NoProbe
    /\ verdict = NoVerdict
    /\ access = NoAccess
    /\ store = [notified |-> 0, answered |-> 0]
    /\ workers = [r \in Workers |-> IdleRefresh]

RefreshStep(r) ==
    \/ GetClient(r)
    \/ RoomsReturn(r)
    \/ SubmitTask(r)
    \/ TaskReturns(r)
    \/ EndPhase(r)

NextFanOut ==
    \E r \in Workers :
        \/ StartRefreshThread(r)
        \/ StartManualRefresh(r)
        \/ RefreshStep(r)
        \/ AnswerManualRefresh(r)

SpecFanOut == InitFanOut /\ [][NextFanOut]_vars

\* One refresh, whose thread is scheduled and whose upstream calls return or fail
NextBackground ==
    \/ StartRefreshThread(1)
    \/ StartManualRefresh(1)
    \/ RefreshStep(1)
    \/ AnswerManualRefresh(1)

SpecBackground == InitFanOut /\ [][NextBackground]_vars /\ WF_vars(RefreshStep(1))

\* --------------------------------------- two free-slot bookings at one time
\* Steps 4 and 5 of create_choice_reservation in two workers of the pool; the
\* guest and ticket steps before them read and write no instructor data.
\* Two requests whose windows overlap: 10:00-10:30 and 10:15-10:45
RaceStarts == {600, 615}

IdleBooker ==
    [pc |-> "idle", start |-> 0, available |-> <<>>, instructor_ids |-> <<>>,
     submitted |-> FALSE, peer_resolved |-> FALSE, answer |-> "", reply |-> NoResponse]

\* What the system of record answers to a commit: it alone knows whether the
\* instructor is still free
RaceAnswers == {Outcome("ok", NoBody), Outcome("rejected", NoBody), Outcome("down", NoBody)}

\* The handler's reply to the commit's answer
CommitReply_Accepted(outcome) ==
    [NoResponse EXCEPT !.status = 201, !.success = TRUE]

CommitReply(outcome) ==
    CASE outcome.kind = "ok" -> [NoResponse EXCEPT !.status = 201, !.success = TRUE]
      [] outcome.kind = "down" -> InternalError
      [] OTHER -> ReservationCreateFailed(
                      ErrorInfoReply(400, ParseHacomonoError(outcome.body)))

RaceVars == <<master, env, runs, req, pc, loc, calls, resp, served, refresh_pending, probe, verdict, access, store>>

\* A booking request without instructor_ids reaches step 4
RaceReceive(w) ==
    /\ workers[w].pc = "idle"
    /\ \E start \in RaceStarts :
        workers' = [workers EXCEPT ![w].pc = "resolve", ![w].start = start]
    /\ UNCHANGED <<sor, choice_schedule_cache, instructor_studio_map_cache, RaceVars>>

\* Step 4: the snapshot is read through the shared caches and the first
\* available instructor is taken; nothing is reserved or locked
RaceResolve(w) ==
    /\ workers[w].pc = "resolve"
    /\ \E io \in BookingIo :
        LET resolved == ResolveInstructors(master.program, workers[w].start,
                                           choice_schedule_cache,
                                           instructor_studio_map_cache, io)
            error_code == ResolveOutcome(resolved, master.program, workers[w].start)
        IN /\ choice_schedule_cache' = resolved.schedule_cache
           /\ instructor_studio_map_cache' = resolved.map_cache
           /\ workers' = [workers EXCEPT ![w] =
                  IF error_code = ""
                  THEN [@ EXCEPT !.pc = "commit",
                                 !.available = resolved.available,
                                 !.instructor_ids = FirstFit(resolved.available)]
                  ELSE [@ EXCEPT !.pc = "done",
                                 !.reply = WithMessage(ErrorReply(400, error_code))]]
    /\ UNCHANGED <<sor, RaceVars>>

\* Step 5: client.create_choice_reservation(reservation_data) with the
\* instructor of step 4
RaceCommit(w) ==
    /\ workers[w].pc = "commit"
    /\ \E outcome \in RaceAnswers :
        /\ workers' = [workers EXCEPT ![w] =
               [@ EXCEPT !.pc = "done", !.submitted = TRUE,
                         !.peer_resolved =
                             \E v \in Workers \ {w} : workers[v].pc = "commit",
                         !.answer = outcome.kind,
                         !.reply = CommitReply(outcome)]]
        /\ sor' = IF outcome.kind = "ok"
                  THEN [sor EXCEPT
                          !.schedule.reservation_assign_instructor =
                              @ \o CommittedBlocks(workers[w].instructor_ids,
                                                   workers[w].start,
                                                   master.program.service_minutes)]
                  ELSE sor
    /\ UNCHANGED <<choice_schedule_cache, instructor_studio_map_cache, RaceVars>>

InitRace ==
    /\ \E reserved \in BookingReservedLists :
        sor = MkSor(MkSchedule(1, BookingShifts, reserved))
    /\ master = MkMaster(PlainProgram, <<>>, <<>>, EmptyStudioMap)
    /\ choice_schedule_cache = NoScheduleCache
    /\ instructor_studio_map_cache = NoMapCache
    /\ env = MkEnv(0, TRUE, <<TRUE, TRUE, TRUE>>)
    /\ runs = <<>>
    /\ req = NoRequest
    /\ pc = "idle"
    /\ loc = InitLoc
    /\ calls = <<>>
    /\ resp = NoResponse
    /\ served = 0
    /\ refresh_pending = 0
    /\ probe = NoTokenProbe
    /\ verdict = NoVerdict
    /\ access = NoAccess
    /\ store = InitStore
    /\ workers = [w \in Workers |-> IdleBooker]

NextRace == \E w \in Workers : RaceReceive(w) \/ RaceResolve(w) \/ RaceCommit(w)

SpecRace == InitRace /\ [][NextRace]_vars

\* The request window and the buffers of a resolver run
RunStart == env.start_at
RunEnd == env.start_at + master.program.service_minutes
RunBefore == master.program.before_interval_minutes
RunAfter == master.program.after_interval_minutes

\* The instructors a run returned
Returned(k) == Range(runs[k].available)

\* Half-open intervals [a1, a2) and [b1, b2) overlap
Overlap(a1, a2, b1, b2) == a1 < b2 /\ b1 < a2

\* The snapshot's entries of instructor i that are existing reservations, with both times
ReservationBlocks(i) ==
    {b \in Range(sor.schedule.reservation_assign_instructor) :
        /\ b.entity_id = i /\ b.reservation_type = "RESERVE"
        /\ HasStamp(b.start_at) /\ HasStamp(b.end_at)}

\* Break / off-duty blocks of instructor i: typed entries of the snapshot and
\* the instructor's shift slots
BreakBlocks(i) ==
    {b \in Range(sor.schedule.reservation_assign_instructor) :
        /\ b.entity_id = i /\ b.reservation_type \in {"BREAK", "break"}
        /\ HasStamp(b.start_at) /\ HasStamp(b.end_at)}
    \cup {SlotBlock(s) : s \in {x \in Range(master.shift_slots) :
             x.entity_id = i /\ x.entity_type \in {"INSTRUCTOR", "instructor"}}}

\* Fixed-slot lessons taught by instructor i
LessonsOf(i) == {l \in Range(master.lessons) : l.instructor_id = i}

\* C2 as stated: no existing reservation of a returned instructor overlaps
\* [start - bufferBefore, start + duration + bufferAfter).
C2_Original ==
    \A k \in DOMAIN runs : \A i \in Returned(k) : \A b \in ReservationBlocks(i) :
        ~Overlap(ToJST(b.start_at), ToJST(b.end_at),
                 RunStart - RunBefore, RunEnd + RunAfter)

\* C2 amended: no existing reservation of a returned instructor, widened to
\* [reserved.start - bufferBefore, reserved.end + bufferAfter), overlaps the request
\* window [start, start + duration); with both buffers 0 an instructor holding a
\* reservation equal to the request window is not returned.
C2_WidenedReservationClear ==
    \A k \in DOMAIN runs :
        /\ \A i \in Returned(k) : \A b \in ReservationBlocks(i) :
              ~Overlap(ToJST(b.start_at) - RunBefore, ToJST(b.end_at) + RunAfter,
                       RunStart, RunEnd)
        /\ \A i \in Instructors :
              (/\ RunBefore = 0 /\ RunAfter = 0
               /\ \E b \in ReservationBlocks(i) :
                     ToJST(b.start_at) = RunStart /\ ToJST(b.end_at) = RunEnd)
              => i \notin Returned(k)

\* A run returned an instructor that holds a reservation next to the request
\* window under a non-zero buffer, and another run dropped a reserved instructor
C2_Witness ==
    /\ runs # <<>>
    /\ RunBefore > 0
    /\ \E i \in Returned(1) : \E b \in ReservationBlocks(i) :
          ToJST(b.end_at) + RunAfter = RunStart

\* C3 as stated: no break block and no fixed-slot-lesson block (the lesson window
\* widened by the fixed 30 minutes on both sides) of a returned instructor
\* overlaps the unwidened request window.
C3_NoBreakOrLessonOverlap ==
    \A k \in DOMAIN runs : \A i \in Returned(k) :
        /\ \A b \in BreakBlocks(i) :
              ~Overlap(ToJST(b.start_at), ToJST(b.end_at), RunStart, RunEnd)
        /\ \A l \in LessonsOf(i) :
              ~Overlap(ToJST(l.start_at) - FIXED_SLOT_BEFORE_INTERVAL_MINUTES,
                       ToJST(l.end_at) + FIXED_SLOT_AFTER_INTERVAL_MINUTES,
                       RunStart, RunEnd)

\* C4: every returned instructor has a shift entry that contains the request
\* window: shift.start <= start and start + duration <= shift.end.
C4_WindowContainment ==
    \A k \in DOMAIN runs : \A i \in Returned(k) :
        \E s \in Range(sor.schedule.shift_instructor) :
            /\ s.instructor_id = i
            /\ HasStamp(s.start_at) /\ HasStamp(s.end_at)
            /\ ToJST(s.start_at) <= RunStart
            /\ RunEnd <= ToJST(s.end_at)

\* A run returned one instructor and left out another whose only shift starts
\* before the request does but ends before the request ends
C4_Witness ==
    /\ runs # <<>>
    /\ Returned(1) # {}
    /\ \E s \in Range(sor.schedule.shift_instructor) :
          /\ s.instructor_id \notin Returned(1)
          /\ ToJST(s.start_at) <= RunStart
          /\ RunStart < ToJST(s.end_at)
          /\ ToJST(s.end_at) < RunEnd

\* C5 as stated: a returned instructor's association list is empty or holds the
\* location of the requested room, whatever the loads returned.
C5_LocationRespected ==
    \A k \in DOMAIN runs : \A i \in Returned(k) :
        master.studio_ids[i] = {} \/ master.room_studio \in master.studio_ids[i]

\* The selection types of the program's first selectable_instructor_details entry
PoolRestricted ==
    /\ master.program.selectable_instructor_details # <<>>
    /\ master.program.selectable_instructor_details[1].type
           \in {"SELECTED", "FIXED", "RANDOM_SELECTED"}

PoolUnrestricted ==
    \/ master.program.selectable_instructor_details = <<>>
    \/ master.program.selectable_instructor_details[1].type \in {"ALL", "RANDOM_ALL"}

AllowList == Range(master.program.selectable_instructor_details[1].items) \ {0}

\* The location step as the run saw it: the map loaded and the snapshot's studio id
LocationRejects(i) ==
    /\ \E attempt \in 1..MaxRetries : env.attempts[attempt]
    /\ sor.schedule.studio_id # 0
    /\ master.studio_ids[i] # {}
    /\ sor.schedule.studio_id \notin master.studio_ids[i]

\* C6: with a restricted pool only allow-listed instructors are returned (an empty
\* allow-list returns nobody); with an unrestricted pool, when nothing blocks any
\* instructor, every shift entry that contains the window and passes the location
\* step is returned.
C6_AllowList ==
    \A k \in DOMAIN runs :
        /\ PoolRestricted => Returned(k) \subseteq AllowList
        /\ (/\ PoolUnrestricted
            /\ sor.schedule.reservation_assign_instructor = <<>>
            /\ master.shift_slots = <<>>)
           => \A s \in Range(sor.schedule.shift_instructor) :
                 (/\ HasStamp(s.start_at) /\ HasStamp(s.end_at)
                  /\ ToJST(s.start_at) <= RunStart /\ RunEnd <= ToJST(s.end_at)
                  /\ ~LocationRejects(s.instructor_id))
                 => s.instructor_id \in Returned(k)

\* A restricted run returned an allow-listed instructor and left out one that is
\* on shift but not on the allow-list
C6_Witness ==
    /\ runs # <<>>
    /\ PoolRestricted
    /\ Returned(1) # {}
    /\ \E s \in Range(sor.schedule.shift_instructor) :
          /\ s.instructor_id \notin AllowList
          /\ ToJST(s.start_at) <= RunStart /\ RunEnd <= ToJST(s.end_at)
          /\ ~LocationRejects(s.instructor_id)

\* a is b with entries left out, order kept
IsOrderedSubSeq(a, b) ==
    \E f \in [1..Len(a) -> 1..Len(b)] :
        /\ \A j \in 1..Len(a) : \A k \in 1..Len(a) : j < k => f[j] < f[k]
        /\ \A j \in 1..Len(a) : b[f[j]] = a[j]

\* C7: the result lists the passing instructors in the order of the snapshot's
\* shift list, the first one is assigned, and a second run on the same inputs
\* gives the same list and the same assignment.
C7_OrderedFirstFitDeterministic ==
    /\ \A k \in DOMAIN runs :
          /\ IsOrderedSubSeq(runs[k].available, Ids(sor.schedule.shift_instructor))
          /\ runs[k].available # <<>> =>
                runs[k].instructor_ids = <<runs[k].available[1]>>
    /\ Len(runs) = 2 => runs[1] = runs[2]

\* Two runs, each returning both instructors, the second one reading the list
\* that the first run extended with a shift slot
C7_Witness ==
    /\ Len(runs) = 2
    /\ Len(runs[2].available) = 2
    /\ runs[2].available[1] # runs[2].available[2]
    /\ choice_schedule_cache.data.reservation_assign_instructor
           # sor.schedule.reservation_assign_instructor

\* ------------------------------------------------- booking requests: C1, C8-C10
\* The calls of the four ordered steps, in the order issued
OrderedSteps == {"guest", "grant", "assign", "commit"}

StepRank(step) ==
    CASE step = "guest" -> 1
      [] step = "grant" -> 2
      [] step = "assign" -> 3
      [] step = "commit" -> 4
      [] OTHER -> 0

StepCalls == SelectSeq(calls, LAMBDA c : c.step \in OrderedSteps)

CallsOf(step) == {k \in DOMAIN calls : calls[k].step = step}

CommitIssued == CallsOf("commit") # {}

\* C1: in every booking request the calls of guest lookup/creation, entitlement
\* grant, seat/instructor assignment and commit are issued in that order, so no
\* step is entered again after a later one; the grant and the commit are issued at
\* most once; and a commit call is preceded by a guest call and the grant call and
\* carries a resolved guest id and an assigned instructor or seat.
C1_StepOrder ==
    /\ \A j \in DOMAIN StepCalls : \A k \in DOMAIN StepCalls :
          j < k => StepRank(StepCalls[j].step) <= StepRank(StepCalls[k].step)
    /\ Cardinality(CallsOf("grant")) <= 1
    /\ Cardinality(CallsOf("commit")) <= 1
    /\ CommitIssued =>
          /\ CallsOf("guest") # {} /\ CallsOf("grant") # {}
          /\ loc.reservation_data.member_id # 0
          /\ req.mode = "choice" => loc.reservation_data.instructor_ids # <<>>
          /\ req.mode = "fixed" => loc.reservation_data.no # ""

\* A free-slot request that searched, created the guest, granted, read the
\* schedule and committed, and was answered 201
C1_Witness ==
    /\ req.mode = "choice"
    /\ resp.success
    /\ \E k \in DOMAIN calls : calls[k].op = "create_member"
    /\ CallsOf("grant") # {} /\ CallsOf("assign") # {} /\ CommitIssued

\* C8 as stated: every free-slot commit, whether or not the payload carries
\* instructor ids, names only instructors the resolver returned in that request,
\* and an empty resolver result ends in NO_AVAILABLE_INSTRUCTOR without a commit.
C8_Original ==
    req.mode = "choice" =>
        /\ CommitIssued =>
              /\ loc.resolved
              /\ loc.reservation_data.instructor_ids # <<>>
              /\ Range(loc.reservation_data.instructor_ids) \subseteq Range(loc.available)
        /\ (loc.resolved /\ loc.available = <<>>) =>
              /\ ~CommitIssued
              /\ resp.error_code = "NO_AVAILABLE_INSTRUCTOR"

\* C8 amended: a free-slot commit for a payload without instructor ids names an
\* instructor the resolver returned in that request, and an empty resolver result
\* ends in NO_AVAILABLE_INSTRUCTOR without a commit; for a payload that carries
\* instructor ids the resolver is not run and the commit names those ids.
C8_ResolvedUnlessSupplied ==
    req.mode = "choice" =>
        /\ (CommitIssued /\ req.instructor_ids = <<>>) =>
              /\ loc.resolved
              /\ loc.reservation_data.instructor_ids # <<>>
              /\ Range(loc.reservation_data.instructor_ids) \subseteq Range(loc.available)
        /\ (CommitIssued /\ req.instructor_ids # <<>>) =>
              /\ ~loc.resolved
              /\ loc.reservation_data.instructor_ids = req.instructor_ids
        /\ (loc.resolved /\ loc.available = <<>>) =>
              /\ ~CommitIssued
              /\ resp.error_code = "NO_AVAILABLE_INSTRUCTOR"

\* A commit that names the resolver's instructor 2 while instructor 1, on shift,
\* was rejected for a reservation
C8_Witness ==
    /\ req.mode = "choice" /\ req.instructor_ids = <<>>
    /\ CommitIssued
    /\ loc.available = <<2>>
    /\ loc.reservation_data.instructor_ids = <<2>>

\* The request window of the free-slot request being handled
BookingStart == req.start_at.t
BookingEnd == req.start_at.t + master.program.service_minutes

\* No resource the program links is free of reservations over the request window
NoLinkedResourceFree ==
    \A r \in LinkedResources(master.program) :
        \E b \in Range(sor.schedule.reservation_assign_resource) :
            /\ b.entity_id = r
            /\ Overlap(ToJST(b.start_at), ToJST(b.end_at), BookingStart, BookingEnd)

\* C9 as stated: when the program links resources and none of them is free for
\* [start, start + duration), no commit call is issued and the request is
\* answered NO_AVAILABLE_RESOURCE.
C9_Original ==
    (/\ req.mode = "choice"
     /\ has_selectable_resources(master.program)
     /\ NoLinkedResourceFree)
    => /\ ~CommitIssued
       /\ (loc.resolved /\ loc.available # <<>> /\ pc = "idle") =>
              resp.error_code = "NO_AVAILABLE_RESOURCE"

\* C9 amended: the free-slot handler resolves no resources, whether or not the
\* program links any: no request is answered NO_AVAILABLE_RESOURCE, no resource
\* read is issued, and every request whose resolver returned an instructor goes
\* on to the commit call.
C9_NoResourceResolution ==
    /\ resp.error_code # "NO_AVAILABLE_RESOURCE"
    /\ \A k \in DOMAIN calls : calls[k].op # "get_resources"
    /\ (req.mode = "choice" /\ loc.resolved /\ loc.available # <<>>) =>
          /\ pc \in {"commit", "respond", "idle"}
          /\ pc # "commit" => CommitIssued

\* A commit issued for a program whose only linked resource is reserved over the
\* request window
C9_Witness ==
    /\ req.mode = "choice"
    /\ has_selectable_resources(master.program)
    /\ NoLinkedResourceFree
    /\ loc.resolved
    /\ CommitIssued

\* The seats the request read as not held, as a set
FreeSeatsRead == Range(loc.all_seats) \ loc.reserved_seats

\* The seats were read and the payload names no seat
SeatAssignedByHandler ==
    req.mode = "fixed" /\ loc.seats_read /\ req.space_no = ""

\* C10 as stated: the seat assigned is the lowest-numbered seat not held, whatever
\* the configured order, and when every seat is held the request is answered
\* SEAT_FULL (error code RSV_000008) without a commit.
C10_Original ==
    SeatAssignedByHandler =>
        IF FreeSeatsRead # {}
        THEN loc.space_no =
                 ToString(CHOOSE s \in FreeSeatsRead : \A o \in FreeSeatsRead : s <= o)
        ELSE ~CommitIssued /\ resp.error_code = "RSV_000008"

\* C10 amended: the seat assigned is the first seat, in the order the seats are
\* configured, that is not in the held set the request read (pool 1,2,3 with 1,2
\* held gives seat 3), and that seat is the one committed; when every seat is
\* held the request is answered RSV_000008 without a commit.
C10_FirstConfiguredFreeSeat ==
    SeatAssignedByHandler =>
        IF FreeSeatsRead # {}
        THEN LET first == CHOOSE k \in DOMAIN loc.all_seats :
                              /\ loc.all_seats[k] \notin loc.reserved_seats
                              /\ \A j \in 1..(k - 1) :
                                    loc.all_seats[j] \in loc.reserved_seats
             IN /\ loc.space_no = ToString(loc.all_seats[first])
                /\ CommitIssued => loc.reservation_data.no = loc.space_no
                /\ (loc.all_seats = <<1, 2, 3>> /\ loc.reserved_seats = {1, 2})
                      => loc.space_no = "3"
        ELSE ~CommitIssued /\ resp.error_code = "RSV_000008"

\* A commit of seat 3 for seats configured in the order 3, 1, 2 with none held
C10_Witness ==
    /\ SeatAssignedByHandler
    /\ loc.all_seats = <<3, 1, 2>>
    /\ loc.reserved_seats = {}
    /\ CommitIssued
    /\ loc.reservation_data.no = "3"

\* ------------------------------------------------ booking requests: C11-C20
\* The session's reservations as they were when the commit call was issued
HeldBeforeCommit ==
    IF pc = "respond" \/ resp.success
    THEN SubSeq(sor.lesson_reservations, 1, Len(sor.lesson_reservations) - 1)
    ELSE sor.lesson_reservations

\* The seats the room configures with a number
ConfiguredSeats == Range(AllSeats(master.space_details))

\* C11 as stated: every fixed-slot commit, with or without a caller-supplied seat
\* and whatever the reservations read answered, carries a seat of the configured
\* numbered set that no confirmed or completed reservation of the session holds;
\* in a room without seat numbering no commit is issued and the request that
\* reaches the seat step is answered SPACE_NO_MISSING (the spec's NO_VALID_SEAT).
C11_Original ==
    req.mode = "fixed" =>
        /\ CommitIssued =>
              /\ IntOf(loc.reservation_data.no) \in ConfiguredSeats
              /\ ~SeatHeld(HeldBeforeCommit, loc.reservation_data.no)
        /\ ConfiguredSeats = {} =>
              /\ ~CommitIssued
              /\ (CallsOf("assign") # {} /\ pc = "idle" /\ resp.status = 400) =>
                    resp.error_code = "SPACE_NO_MISSING"

\* C11 amended: a fixed-slot commit for a payload that names no seat carries a
\* seat of the configured numbered set that is not in the held set the request
\* read (a failed reservations read counts as no seat held); a seat named by the
\* payload is committed as given; in a room without seat numbering a payload that
\* names no seat gets no commit and, once the session was read, SPACE_NO_MISSING.
C11_SeatFromReadUnlessSupplied ==
    req.mode = "fixed" =>
        /\ (CommitIssued /\ req.space_no = "") =>
              /\ loc.seats_read
              /\ IntOf(loc.reservation_data.no) \in ConfiguredSeats
              /\ IntOf(loc.reservation_data.no) \notin loc.reserved_seats
        /\ (CommitIssued /\ req.space_no # "") =>
              loc.reservation_data.no = req.space_no
        /\ (ConfiguredSeats = {} /\ req.space_no = "") =>
              /\ ~CommitIssued
              /\ (CallsOf("assign") # {} /\ pc = "idle" /\ resp.status = 400) =>
                    resp.error_code = "SPACE_NO_MISSING"

\* A commit of seat 3, read as the only seat not held, for a payload without a seat
C11_Witness ==
    /\ req.mode = "fixed" /\ req.space_no = ""
    /\ CommitIssued
    /\ loc.reserved_seats = {1, 2}
    /\ SeatHeld(HeldBeforeCommit, "1")
    /\ loc.reservation_data.no = "3"

\* The two bounds for the clock reading of the call, in seconds
MinDatetime == probe.now + RESERVATION_MIN_MINUTES_AHEAD * SecondsPerMinute
MaxDatetime == probe.now + RESERVATION_MAX_DAYS_AHEAD * SecondsPerDay

Validated == verdict # NoVerdict

\* C12: with the defaults of 30 minutes and 14 days, a start equal to now + 30
\* minutes is accepted and one second earlier is rejected; a start equal to
\* now + 14 days is accepted and one day later is rejected; every start in
\* between is accepted; and the message of a rejection names the bound violated.
C12_Boundaries ==
    Validated =>
        /\ probe.reservation_datetime = MinDatetime => verdict.is_valid
        /\ probe.reservation_datetime = MinDatetime - 1 =>
              ~verdict.is_valid /\ verdict.error_message = MinutesAheadMessage
        /\ probe.reservation_datetime = MaxDatetime => verdict.is_valid
        /\ probe.reservation_datetime = MaxDatetime + SecondsPerDay =>
              ~verdict.is_valid /\ verdict.error_message = DaysAheadMessage
        /\ verdict.is_valid <=>
              /\ MinDatetime <= probe.reservation_datetime
              /\ probe.reservation_datetime <= MaxDatetime
        /\ MinutesAheadMessage.text = "30" /\ DaysAheadMessage.text = "14"

\* A start one second before now + 30 minutes, rejected with the 30-minute message
C12_Witness ==
    /\ Validated
    /\ probe.reservation_datetime = MinDatetime - 1
    /\ ~verdict.is_valid
    /\ verdict.error_message.kind = "minutes_ahead"

\* start lies in [now + 30 minutes, now + 14 days], all in minutes
InRange(start, now) ==
    /\ now + RESERVATION_MIN_MINUTES_AHEAD <= start
    /\ start <= now + RESERVATION_MAX_DAYS_AHEAD * 24 * 60

\* The start the request asks for: the payload's start_at, or the session's start
RequestedStart ==
    IF req.mode = "choice" THEN req.start_at.t ELSE ToJST(master.studio_lesson.start_at)

\* The start as the handler reads it, when it can: strptime of the payload's
\* start_at, or the time of day written in the session's start_at
StartDetermined ==
    IF req.mode = "choice" THEN ParseSeconds(req.start_at).ok
    ELSE loc.lesson_program_id # 0 /\ HasStamp(master.studio_lesson.start_at)

StartRead ==
    IF req.mode = "choice" THEN req.start_at.t ELSE master.studio_lesson.start_at.t

\* A request with its required fields that is past the validation step
PastValidation == req.mode \in {"choice", "fixed"} /\ req.guest_email # "" /\ pc # "validate"

\* The request was answered DATETIME_OUT_OF_RANGE (the spec's OUT_OF_RANGE) and no
\* call other than the session read of the validation step was issued for it
RejectedOutOfRange ==
    /\ pc = "idle"
    /\ resp.status = 400 /\ resp.error_code = "DATETIME_OUT_OF_RANGE"
    /\ \A k \in DOMAIN calls : calls[k].step = "validate"

\* C13 as stated: every request whose requested start lies outside
\* [now + 30 minutes, now + 14 days] is answered OUT_OF_RANGE without a guest,
\* grant or commit call, whatever the outcome of determining the start.
C13_Original ==
    (PastValidation /\ ~InRange(RequestedStart, req.now))
    => RejectedOutOfRange

\* C13 amended: a request whose start the handler could read (the payload's
\* start_at parsed; the session was read and the time of day its start_at shows
\* taken) is answered OUT_OF_RANGE without a guest, grant or commit call exactly
\* when that start lies outside [now + 30 minutes, now + 14 days]; a request
\* whose start could not be read is never answered OUT_OF_RANGE.
C13_RejectedWhenStartRead ==
    PastValidation =>
        /\ (StartDetermined /\ ~InRange(StartRead, req.now))
              => RejectedOutOfRange
        /\ (~StartDetermined \/ InRange(StartRead, req.now))
              => resp.error_code # "DATETIME_OUT_OF_RANGE"

\* A free-slot request for a start 20 minutes ahead, rejected with no call issued
C13_Witness ==
    /\ req.mode = "choice"
    /\ req.start_at.t = req.now + 20
    /\ RejectedOutOfRange
    /\ calls = <<>>

\* The lookup of the request found an account
LookupFound == req.mode \in {"choice", "fixed"} /\ loc.lookup_member_id # 0

CreateCalled == \E k \in DOMAIN calls : calls[k].op = "create_member"

GrantCalled == loc.grant_call # NoGrantCall

\* C14: when the lookup finds an account for the request's email, that account's
\* id is the one the request goes on with, the one the grant call names and the
\* one the commit call names, and no create_member call is issued in the request.
C14_ReuseExisting ==
    LookupFound =>
        /\ ~CreateCalled
        /\ loc.lookup_member_id \in SameAddressIds(req.guest_email)
        /\ loc.member_id = loc.lookup_member_id
        /\ GrantCalled => loc.grant_call.member_id = loc.lookup_member_id
        /\ CommitIssued => loc.reservation_data.member_id = loc.lookup_member_id

\* A committed booking for an email whose account the lookup found
C14_Witness ==
    /\ LookupFound
    /\ GrantCalled
    /\ CommitIssued
    /\ resp.success
    /\ loc.reservation_data.member_id = 1

\* The accounts per normalized mail address
AccountsOf(normalized) ==
    {e \in Emails : NormalizeEmail(e) = normalized /\ sor.members[e] # 0}

\* C15 as stated: create_member is called only after the lookup by the request's
\* normalized email completed in the same request and reported that there is no
\* account for it, and the system of record holds at most one account per
\* normalized email however many bookings were made.
C15_LookupBeforeCreate ==
    /\ CreateCalled =>
          /\ calls[1].op = "get_members"
          /\ loc.lookup_result = "none"
    /\ \A e \in Emails : Cardinality(AccountsOf(NormalizeEmail(e))) <= 1

\* create_member was called and the request is left without a member id
GuestResolutionFailed ==
    /\ req.mode \in {"choice", "fixed"}
    /\ CreateCalled
    /\ pc # "retry_lookup"
    /\ loc.member_id = 0

\* C16 as stated: when no account was found and the creation fails, the request
\* is answered at once with an error that says the guest could not be registered,
\* and neither a grant call nor a commit call is issued in it.
C16_GuestFailureFatal ==
    GuestResolutionFailed =>
        /\ pc = "idle"
        /\ ~resp.success
        /\ resp.error = "guest_create_failed"
        /\ CallsOf("grant") = {}
        /\ ~CommitIssued

\* The grant call of the request failed, by a refusal or with the adapter unreachable
GrantFailed == GrantCalled /\ loc.grant_result \in {"error", "down"}

\* The request holds an assignment: an instructor list or a seat
AssignmentFound ==
    IF req.mode = "choice" THEN loc.instructor_ids # <<>>
    ELSE loc.space_no # "" /\ loc.space_has_valid_no

\* The request ended with the grant call as the last thing it did
EndedAtGrant ==
    /\ pc = "idle"
    /\ calls[Len(calls)].step = "grant"
    /\ resp.error = "internal_server_error"

\* C17 as stated: a failed grant call, whether refused or not answered, never
\* ends the request: the request goes on to the assignment step and, when that
\* finds an instructor or a seat, to the commit call.
C17_GrantFailureNonFatal ==
    GrantFailed =>
        /\ ~EndedAtGrant
        /\ (pc \in {"idle", "respond"} /\ AssignmentFound /\ resp.status # 500)
              => CommitIssued

\* The program has a restriction list: the flag is set and the list has entries
HasRestrictionList(program) ==
    program.is_ticket_reserve_limit /\ program.ticket_reserve_limit_details # <<>>

\* The ticket ids the restriction list names, in list order
RestrictionIds(program) == LimitedTicketIds(program.ticket_reserve_limit_details)

\* The tickets the program links, by the first of the three fields that is set
LinkedTicketIds(program) ==
    IF program.consumable_ticket_ids # <<>> THEN program.consumable_ticket_ids
    ELSE IF program.ticket_ids # <<>> THEN program.ticket_ids
    ELSE program.reservable_ticket_ids

\* C18 as stated: the ticket granted follows the configuration of the booked
\* program: an id of its restriction list when it has one, else the ticket it
\* links, else 5; one unit is granted; the free-slot commit names the same id.
C18_Original ==
    GrantCalled =>
        /\ loc.grant_call.num = 1
        /\ IF HasRestrictionList(master.program)
           THEN loc.grant_call.ticket_id \in Range(RestrictionIds(master.program))
           ELSE IF LinkedTicketIds(master.program) # <<>>
           THEN loc.grant_call.ticket_id = LinkedTicketIds(master.program)[1]
           ELSE loc.grant_call.ticket_id = DEFAULT_TICKET_ID
        /\ (req.mode = "choice" /\ CommitIssued) =>
              loc.reservation_data.ticket_id = loc.grant_call.ticket_id

\* C18 amended: for the program as the handler read it, the ticket granted is
\* the first id the restriction list names when the program has such a list with
\* a named id, 5 when its restriction list names no id, else the first ticket the
\* program links, else 5; when the fixed-slot handler could not read the program
\* the ticket is 5; one unit is granted; the free-slot commit names the same id.
C18_TicketPrecedence ==
    GrantCalled =>
        /\ loc.grant_call.num = 1
        /\ loc.grant_call.ticket_id =
              IF ~loc.program_read THEN DEFAULT_TICKET_ID
              ELSE IF HasRestrictionList(loc.program)
              THEN IF RestrictionIds(loc.program) # <<>>
                   THEN RestrictionIds(loc.program)[1]
                   ELSE DEFAULT_TICKET_ID
              ELSE IF LinkedTicketIds(loc.program) # <<>>
              THEN LinkedTicketIds(loc.program)[1]
              ELSE DEFAULT_TICKET_ID
        /\ loc.program_read => loc.program = master.program
        /\ req.mode = "choice" => loc.program_read
        /\ (req.mode = "choice" /\ CommitIssued) =>
              loc.reservation_data.ticket_id = loc.grant_call.ticket_id

\* A free-slot commit that names ticket 8, the first of the restriction list of a
\* program that also links ticket 7
C18_Witness ==
    /\ req.mode = "choice"
    /\ HasRestrictionList(loc.program)
    /\ LinkedTicketIds(loc.program) = <<7>>
    /\ loc.grant_call = [member_id |-> loc.member_id, ticket_id |-> 8, num |-> 1]
    /\ CommitIssued
    /\ loc.reservation_data.ticket_id = 8

\* The adapter operations that would undo a guest account, a grant or a booking
UndoOps == {"delete_member", "update_member", "cancel_member_ticket", "cancel_reservation"}

\* The request ends in failure with this step, taken at assignment or at commit
FailsAtAssignmentOrCommit ==
    /\ pc \in {"resolve", "seat", "commit"}
    /\ pc' = "idle"
    /\ ~resp'.success

\* C19: a step that ends a booking in failure at seat/instructor assignment or at
\* commit issues no adapter call that deletes the guest, revokes the entitlement
\* or cancels, and leaves the member accounts and the granted entitlements of the
\* system of record exactly as they were before the step.
C19_NoCompensation ==
    [][FailsAtAssignmentOrCommit =>
          /\ \A k \in (Len(calls) + 1)..Len(calls') : calls'[k].op \notin UndoOps
          /\ sor'.members = sor.members
          /\ sor'.member_tickets = sor.member_tickets]_vars

\* A booking whose guest was created and whose grant succeeded, refused at commit:
\* the account and the granted entitlement are still in the system of record
C19_Witness ==
    /\ pc = "idle"
    /\ CreateCalled
    /\ loc.grant_result = "ok"
    /\ resp.error = "reservation_create_failed"
    /\ sor.members[req.guest_email] = loc.member_id
    /\ sor.member_tickets =
          <<[member_id |-> loc.member_id, ticket_id |-> loc.grant_call.ticket_id]>>

\* The request ended with its commit refused by the upstream
CommitRefused == pc = "idle" /\ resp.error = "reservation_create_failed"

\* The codes of the lookup table that the refusal's text contains
TableCodesIn(body) ==
    {c \in body.codes : \E k \in DOMAIN error_messages : error_messages[k] = c}

\* The message the refusal's body embeds: that of the first error it lists
EmbeddedMessage(body) == IF Len(body.errors) > 0 THEN body.errors[1] ELSE ""

FailureReply == pc = "idle" /\ resp.status # 0 /\ ~resp.success

\* C21: every failure reply of a booking request carries an error_code and a
\* message.
C21_StructuredErrors ==
    FailureReply => resp.error_code # "" /\ resp.message.kind # "none"

\* The tokens of a pair and of another pair have been generated and verified
TokenChecked == probe # NoTokenProbe

\* The pairs differ in their email or in their phone
PairsDiffer == probe.email # probe.other_email \/ probe.phone # probe.other_phone

\* The text a pair is hashed as: the email in lower case without surrounding
\* blanks, a colon, the phone without hyphens and blanks
HashedText(email, phone) ==
    Strip(Lower(email)) \o <<":">> \o Strip(Remove(Remove(phone, "-"), " "))

\* C22 as stated: a pair's own token verifies, generating again gives the same
\* token, and the token of a pair that differs in email or phone does not verify.
C22_Original ==
    TokenChecked =>
        /\ verdict.own
        /\ verdict.again = verdict.token
        /\ PairsDiffer => ~verdict.other

\* C22 amended: a pair's own token verifies, generating again gives the same
\* token, and the token of another pair verifies exactly when both pairs are
\* hashed as the same text, so it does not verify when the pairs differ in the
\* hashed text.
C22_TokenRoundTrip ==
    TokenChecked =>
        /\ verdict.own
        /\ verdict.again = verdict.token
        /\ verdict.other <=>
              HashedText(probe.email, probe.phone)
                  = HashedText(probe.other_email, probe.other_phone)

\* Two pairs that differ only in the case of the email: the other pair's token
\* verifies
C22_Witness ==
    /\ TokenChecked
    /\ probe.email = <<"a">> /\ probe.other_email = <<"A">>
    /\ probe.phone = probe.other_phone
    /\ verdict.own
    /\ verdict.other

\* The last booking succeeded and its reply's reservation, member and token were
\* then presented to the detail lookup or to the cancel operation
PresentedReply ==
    /\ resp.success
    /\ access.op \in {"detail", "cancel"}
    /\ access.reservation_id = resp.reservation_id
    /\ access.member_id = resp.member_id
    /\ access.verify = resp.verify

\* C23: after a successful booking, the detail lookup and the cancel operation
\* that are given the reply's reservation, guest id and token are not answered
\* with the authentication failure 403, whether the booking created the guest
\* account or reused one.
C23_TokenAccepted ==
    PresentedReply => access.status # 403

\* The token generated from the mail address and tel stored for a guest id
StoredToken(member_id) ==
    generate_verification_hash(StoredMember(member_id).mail_address,
                               StoredMember(member_id).tel)

\* The token of the last detail or cancel request is the stored one of its guest id
TokenMatches ==
    /\ StoredMember(access.member_id).found
    /\ access.verify = StoredToken(access.member_id)

CancelIssued == \E k \in DOMAIN access.calls : access.calls[k] = "cancel_reservation"

\* C24: a detail or cancel request returns the reservation's details, or issues
\* the adapter's cancel call, only when its token is the one generated from the
\* mail address and tel stored for its guest id; when the handler has read the
\* stored data and the token is another, the reply is 403; and no such request
\* changes the system of record unless it issued the cancel call.
C24_AuthorizationGate ==
    [][(access' # access /\ access'.op # "") =>
          /\ (access'.details \/ CancelIssued') => TokenMatches'
          /\ (access'.member_read /\ ~TokenMatches') =>
                /\ access'.status = 403
                /\ ~access'.details
                /\ ~CancelIssued'
          /\ ~CancelIssued' => sor' = sor]_vars

\* A cancel request with the guest id of a reservation and the token of another
\* pair: answered 403 with no cancel call
C24_Witness ==
    /\ access.op = "cancel"
    /\ access.reservation_id \in ReservationIds
    /\ ReservationMember(access.reservation_id) = access.member_id
    /\ access.member_read
    /\ access.verify # NoToken
    /\ ~TokenMatches
    /\ access.status = 403
    /\ ~CancelIssued

\* A get whose entry had expired or was missing and whose fetch failed
FetchFailed ==
    /\ probe # NoFetchProbe
    /\ verdict.fetched
    /\ ~FetchSucceeds(probe.scope, probe.resp)

\* C26 as stated: when the fetch of any scope fails, the last cached value is
\* returned if there is one, however old, otherwise the failure reaches the
\* caller; the cached value and its time stay as they were.
C26_Original ==
    FetchFailed =>
        /\ verdict.cache = probe.cache
        /\ IF probe.cache.has
           THEN ~verdict.raised /\ verdict.value = probe.cache.data
           ELSE verdict.raised

\* C26: when the fetch of any scope fails, the last cached value is returned if
\* there is one, however old; with nothing cached the failure reaches the caller
\* of the per-(room, date) snapshot, and the caller of a master-data scope gets
\* the empty list or map; the cached value and its time stay as they were.
C26_FetchFailurePolicy ==
    FetchFailed =>
        /\ verdict.cache = probe.cache
        /\ IF probe.cache.has
           THEN ~verdict.raised /\ verdict.value = probe.cache.data
           ELSE IF probe.scope = "choice_schedule"
           THEN verdict.raised
           ELSE ~verdict.raised /\ verdict.value = "empty"

C26_Witness ==
    /\ FetchFailed
    /\ probe.scope = "studio_rooms"
    /\ ~probe.cache.has
    /\ ~verdict.raised
    /\ verdict.value = "empty"

\* refresh_all has run over a non-empty room list
RefreshRan == probe # NoRefreshProbe /\ verdict.rooms_count > 0

\* The (room, date, program) snapshots that could not be recomputed: the date
\* is None in the stored range snapshot, or the range snapshot was not stored
FailedSnapshots ==
    {key \in RefreshRooms \X RefreshDates \X RefreshPrograms :
        \/ ~verdict.range_cache[key[1]][key[3]].has
        \/ verdict.range_cache[key[1]][key[3]].data[key[2]] = "none"}

\* The rooms with a failed snapshot
FailedRooms == {key[1] : key \in FailedSnapshots}

ReportedRooms == {verdict.errors[k] : k \in DOMAIN verdict.errors}

\* C28: a failure in recomputing one room, date or program does not stop the
\* remaining rooms, every such failure is in the aggregate error list, and the
\* result reports success only when no snapshot failed and otherwise the
\* number of failures.
C28_FailuresReported ==
    RefreshRan =>
        /\ \A room \in RefreshRooms : verdict.range_cache[room][0].has
        /\ FailedRooms \subseteq ReportedRooms
        /\ verdict.success <=> FailedSnapshots = {}
        /\ ~verdict.success => verdict.errors_count >= Cardinality(FailedRooms)

\* The entry was fetched by the refresh that ran at probe.now
FetchedByRefresh(entry) == entry.has /\ entry.time = probe.now

\* C29: when refresh_all, started after an upstream change, completes without
\* reported errors, every cached per-date snapshot and every date of the
\* covering range snapshots holds data fetched from the upstream after the
\* refresh started, whatever the age of the entries cached before.
C29_RefreshedAfterChange ==
    RefreshRan /\ verdict.success =>
        \A room \in RefreshRooms, date \in RefreshDates :
            /\ FetchedByRefresh(verdict.day_cache[room][date])
            /\ verdict.day_cache[room][date].data = probe.answers[room][date]
            /\ FetchedByRefresh(verdict.range_cache[room][0])
            /\ verdict.range_cache[room][0].data[date] = probe.answers[room][date]

\* A fetch has written the per-date or the range entry
CacheWritten == store.fetches > 0

\* Value and time under one key are of one fetch, and no time is without value
Consistent(value, time) ==
    /\ time.has => value.has
    /\ value.has /\ time.has => value.fetch = time.fetch

\* C27: a successful fetch overwrites value and timestamp atomically: under
\* every interleaving of get, refresh and invalidate by several workers, no
\* state has a value and a timestamp of different fetches under one key, or a
\* timestamp without a value.
C27_AtomicOverwrite ==
    CacheWritten =>
        /\ Consistent(store.schedule_cache, store.schedule_cache_time)
        /\ Consistent(store.range_cache, store.range_cache_time)

\* The reads of the per-date or the range snapshot that were answered with data
AnsweredReads ==
    {w \in Workers : /\ workers[w].pc = "done"
                     /\ workers[w].task \in {"get", "range"}
                     /\ workers[w].result.has
                     /\ workers[w].result.data >= 0}

\* C25: after a commit for a (room, date) and once the cache step that follows
\* it has run, no read of the (room, date) snapshot or of a range snapshot
\* that covers it returns data fetched before the commit, under every
\* interleaving with concurrent readers and refreshes.
C25_NoStaleReadAfterCommit ==
    \A w \in AnsweredReads : workers[w].result.data >= workers[w].floor

\* The workers whose commit was sent to the system of record
Submitted == {w \in Workers : workers[w].submitted}

\* The windows of two bookings overlap
WindowsOverlap(v, w) ==
    /\ workers[v].start < workers[w].start + master.program.service_minutes
    /\ workers[w].start < workers[v].start + master.program.service_minutes

\* C30: two concurrent free-slot bookings for one instructor and overlapping
\* windows can both pass the local resolution and both send a commit that
\* names that instructor: between resolution and commit nothing is locked, the
\* commit names the instructor the worker itself resolved whatever the other
\* worker has done, and whether the booking succeeds is the answer of the
\* system of record alone.
C30_DecidedBySystemOfRecord ==
    \A w \in Submitted :
        /\ workers[w].available # <<>>
        /\ workers[w].instructor_ids = <<workers[w].available[1]>>
        /\ workers[w].reply.success <=> workers[w].answer = "ok"
        /\ workers[w].reply.status = 201 <=> workers[w].answer = "ok"

\* Both workers resolved instructor 1 for overlapping windows before either
\* committed, both sent the commit, and the system of record refused the second
C30_Witness ==
    /\ Submitted = Workers
    /\ workers[1].instructor_ids = <<1>>
    /\ workers[2].instructor_ids = <<1>>
    /\ WindowsOverlap(1, 2)
    /\ workers[1].peer_resolved
    /\ workers[1].answer = "ok"
    /\ workers[2].answer = "rejected"

\* ============================ limits, purity, bounds, ownership: C31-C40

\* A getter or the range read has answered
ReadAnswered == probe # NoFetchProbe

\* The entry of the scope read was younger than its time to live at the read
FreshAtRead ==
    /\ probe.cache.has
    /\ probe.now - probe.cache.time
         < (IF probe.scope = "choice_schedule_range"
            THEN CHOICE_SCHEDULE_RANGE_CACHE_TTL_SECONDS
            ELSE ScopeTtl(probe.scope))

\* The read made no upstream call
NoUpstreamCall ==
    IF probe.scope = "choice_schedule_range"
    THEN verdict.upstream_reads = {}
    ELSE ~verdict.fetched

\* The per-date entry of a date was younger than its time to live at the range read
DayFreshAtRead(date) ==
    /\ probe.days[date].has
    /\ probe.now - probe.days[date].time < CHOICE_SCHEDULE_CACHE_TTL_SECONDS

\* C36 as stated: a value of any scope is returned without an upstream fetch
\* only while its age is strictly below its time to live, and once the age has
\* reached the time to live the read attempts an upstream fetch before it
\* returns.
C36_Original ==
    ReadAnswered => (NoUpstreamCall <=> FreshAtRead)

\* C36: the stored value of any scope is the answer without a fetch or a
\* rebuild only while its age is strictly below its time to live.  Once the age
\* has reached the time to live, a getter attempts its upstream fetch before it
\* returns, and the range read rebuilds the snapshot, fetching every date whose
\* per-date entry is itself missing or expired and reading the dates with a
\* fresh per-date entry from that entry.
C36_TtlBound ==
    ReadAnswered =>
        IF probe.scope = "choice_schedule_range"
        THEN /\ verdict.refreshed <=> ~FreshAtRead
             /\ FreshAtRead => verdict.upstream_reads = {} /\ verdict.value = probe.cache.data
             /\ ~FreshAtRead =>
                  \A date \in RefreshDates :
                      <<"get_choice_schedule", date>> \in verdict.upstream_reads
                          <=> ~DayFreshAtRead(date)
        ELSE verdict.fetched <=> ~FreshAtRead

C36_Witness ==
    /\ ReadAnswered
    /\ probe.scope = "choice_schedule_range"
    /\ probe.cache.has
    /\ probe.now - probe.cache.time = CHOICE_SCHEDULE_RANGE_CACHE_TTL_SECONDS
    /\ verdict.refreshed
    /\ <<"get_choice_schedule", 1>> \in verdict.upstream_reads
    /\ <<"get_choice_schedule", 2>> \notin verdict.upstream_reads

\* A range read has rebuilt the snapshot
RangeRebuilt ==
    /\ ReadAnswered
    /\ probe.scope = "choice_schedule_range"
    /\ verdict.refreshed

\* The dates whose per-date snapshot the rebuild could not obtain: nothing
\* fresh cached, the fetch failed, and nothing stale to fall back on
DatesNotObtained ==
    {date \in RefreshDates : ~probe.days[date].has /\ probe.answers[date] = "failed"}

\* C38 as stated: a range snapshot is written only when the per-date snapshot
\* of every date in the range was obtained; a rebuild in which some date failed
\* leaves the previous range entry and its time in place.
C38_Original ==
    RangeRebuilt /\ DatesNotObtained # {} => verdict.range_cache[1][0] = probe.cache

\* C38: every rebuild of a range snapshot writes the entry with the time of the
\* rebuild in place of the previous entry and its time; a date whose per-date
\* snapshot could not be obtained is stored in the entry without a schedule,
\* and every other date with the schedule read for it.
C38_RangeAlwaysWritten ==
    RangeRebuilt =>
        /\ verdict.range_cache[1][0].has
        /\ verdict.range_cache[1][0].time = probe.now
        /\ verdict.range_cache[1][0].data = verdict.value
        /\ \A date \in RefreshDates :
              verdict.value[date] = "none" <=> date \in DatesNotObtained

C38_Witness ==
    /\ RangeRebuilt
    /\ probe.cache.has
    /\ DatesNotObtained = {1}
    /\ verdict.range_cache[1][0].time = probe.now
    /\ verdict.range_cache[1][0].data[1] = "none"
    /\ verdict.range_cache[1][0].data[2] = "new"

\* An invalidation has run
Invalidated == probe # NoFetchProbe /\ probe.scope = "invalidate"

\* The per-date keys of the room and day invalidated
DayTargets(keys) ==
    {key \in keys : key[1] = probe.studio_room_id /\ ParseDay(key[2]) = ParseDay(probe.date)}

\* The range keys of the room whose span includes the day invalidated
RangeTargets(keys) ==
    {key \in keys :
        /\ key[1] = probe.studio_room_id
        /\ ParseDay(key[2]) <= ParseDay(probe.date)
        /\ ParseDay(probe.date) <= ParseDay(key[3])}

\* C37: invalidate(room, date) removes exactly the per-date snapshot of the
\* room and date and the room's range snapshots whose span includes the date,
\* each with its timestamp; the entries of other rooms, the range entries that
\* do not cover the date and the master caches stay as they were; the result is
\* true exactly when an entry was removed.
C37_InvalidateExact ==
    Invalidated =>
        LET before == probe.caches
            after == verdict.caches
        IN /\ after.schedule_cache = before.schedule_cache \ DayTargets(before.schedule_cache)
           /\ after.schedule_cache_time
                = before.schedule_cache_time \ DayTargets(before.schedule_cache_time)
           /\ after.range_cache = before.range_cache \ RangeTargets(before.range_cache)
           /\ after.range_cache_time
                = before.range_cache_time \ RangeTargets(before.range_cache_time)
           /\ \A scope \in {"studios", "programs", "studio_rooms", "resources",
                            "instructor_studio_map"} : after[scope] = before[scope]
           /\ verdict.invalidated <=> after # before

\* The same for date texts that are all written with the leading zero
PaddedOnly ==
    /\ Len(probe.date) = 2
    /\ \A key \in probe.caches.schedule_cache : Len(key[2]) = 2
    /\ \A key \in probe.caches.range_cache : Len(key[2]) = 2 /\ Len(key[3]) = 2

C37_InvalidateExactPadded == Invalidated /\ PaddedOnly => C37_InvalidateExact

\* C35: the resolution inside a booking request leaves the cached (room, date)
\* snapshot as it was: after any number of resolutions against the cache, the
\* shift list and the blocked-interval list of the cached snapshot are those of
\* the snapshot the upstream returned.
C35_ResolverLeavesCache ==
    Len(runs) > 0 /\ choice_schedule_cache.has =>
        /\ choice_schedule_cache.data.shift_instructor = sor.schedule.shift_instructor
        /\ choice_schedule_cache.data.reservation_assign_instructor
             = sor.schedule.reservation_assign_instructor

\* C40: cancel hands a reservation id to the adapter only when the reservation
\* belongs to the guest whose id and token were verified: the holder of a
\* valid id and token of one guest cannot bring about the cancel call for the
\* reservation of another guest.
C40_CancelOnlyOwnReservation ==
    \A k \in DOMAIN access.forwarded :
        ReservationMember(access.forwarded[k]) = access.member_id

\* C31: for each verb, any two requests sent through the shared client are at
\* least the verb's minimum interval apart (a tenth of a second for GET, half
\* a second for POST, PUT and DELETE), for one caller and for every
\* interleaving of several threads, retries included.
C31_MinimumInterval ==
    \A i, j \in DOMAIN store.sent :
        i < j /\ store.sent[i].method = store.sent[j].method =>
            store.sent[j].time - store.sent[i].time >= MinInterval(store.sent[i].method)

\* The thread of the runs with one adapter request
Caller == workers[1]

\* C32 as stated: one adapter request sends at most two HTTP requests in total.
C32_Original ==
    Caller.api_requests + Caller.token_requests <= 2

\* C32: one adapter request sends at most two requests to the API and, with
\* the refresh credentials set, one request to the token URL after each 401
\* answer.  After a 429 answer it waits the retry-after time and retries once;
\* after a 401 answer with a refreshed token it retries once; both draw on the
\* same single retry, and when it is used up, or on any other error, the error
\* is raised to the caller.  Every send and every retry counts the request
\* down, so it ends.
C32_BoundedRetry ==
    /\ Caller.retry_count \in {0, 1}
    /\ Caller.api_requests <= 2 - Caller.retry_count
    /\ Caller.api_requests = Len(store.sent)
    /\ Caller.token_requests <= Caller.api_requests
    /\ Caller.token_requests > 0 => store.credentials
    /\ Len(Caller.waited) <= 1
    /\ Len(Caller.waited) = 1 /\ Len(store.sent) = 2 =>
          store.sent[2].time - store.sent[1].time >= Caller.waited[1] * TicksPerSecond
    /\ Caller.pc = "done" =>
          /\ Caller.outcome \in {"ok", "HacomonoAPIError", "AuthenticationError",
                                 "RateLimitError", "TokenRefreshedError"}
          /\ Caller.outcome \in {"RateLimitError", "TokenRefreshedError"} =>
                Caller.retry_count = 0 /\ Caller.api_requests = 2

\* A 401 answer, a token refresh and a retry that gets a 429 answer: the retry
\* is used up and the rate-limit error reaches the caller
C32_Witness ==
    /\ Caller.pc = "done"
    /\ Caller.api_requests = 2
    /\ Caller.token_requests = 1
    /\ Caller.outcome = "RateLimitError"

\* The upstream calls the refreshes have in flight
RECURSIVE InFlight(_)
InFlight(threads) ==
    IF threads = {} THEN 0
    ELSE LET r == CHOOSE x \in threads : TRUE
         IN workers[r].in_flight + InFlight(threads \ {r})

\* C33 as stated: the upstream calls that the refreshes have in flight never
\* exceed the pool bound of 7, also when a notification arrives while an
\* earlier refresh is running.
C33_Original == InFlight(Workers) <= max_workers

\* C33: the upstream calls that one refresh has in flight never exceed the
\* pool bound of 7; a notification that arrives while an earlier refresh is
\* running starts a refresh with pools of its own, so that the calls in flight
\* never exceed 7 for each refresh that is running.
C33_FanOutPerRefresh ==
    /\ \A r \in Workers : workers[r].in_flight <= max_workers
    /\ InFlight(Workers) <= max_workers * Cardinality({r \in Workers : workers[r].pc = "room"})
                              + Cardinality({r \in Workers : workers[r].pc = "rooms"})

\* A refresh of eight dates with seven calls in flight and the eighth date
\* waiting for a pool thread, while the other refresh is in its fan-out too
C33_Witness ==
    /\ workers[1].days = ManualDays
    /\ workers[1].in_flight = max_workers
    /\ workers[1].queued = 1
    /\ workers[2].pc = "room"
    /\ workers[2].in_flight > 0

\* The refresh of the runs with one refresh
Refresh == workers[1]

\* A refresh that has ended went through every room, found no room, or failed
\* before the rooms and logged it; nothing is raised out of it
EndedInOrder ==
    Refresh.pc = "done" =>
        /\ Refresh.in_flight = 0 /\ Refresh.queued = 0
        /\ \/ Refresh.outcome = "completed" /\ Refresh.room = RoomsPerRefresh
           \/ Refresh.outcome = "completed" /\ Refresh.room = 0 /\ Refresh.logged
           \/ Refresh.outcome = "failed" /\ Refresh.logged

\* The notification is answered when the thread is started, before the refresh
AnsweredAtOnce ==
    Refresh.pc # "idle" /\ store.notified > 0 => store.answered = store.notified

\* C34: every background refresh that is started ends, given that each
\* upstream call returns or fails: it goes through all rooms, dates and
\* programs or logs the failure, nothing is raised out of the background task,
\* and the request that started it is answered without waiting for it.
C34_RefreshTerminates ==
    /\ [](EndedInOrder /\ AnsweredAtOnce)
    /\ (Refresh.pc # "idle") ~> (Refresh.pc = "done")

\* A background refresh that went through both rooms and logged a failure on
\* its way
C34_Witness ==
    /\ Refresh.pc = "done"
    /\ store.notified = 1
    /\ store.answered = 1
    /\ Refresh.outcome = "completed"
    /\ Refresh.room = RoomsPerRefresh
    /\ Refresh.logged

\* The listing and the resolver have been run on one snapshot
Listed == probe # NoFetchProbe /\ probe.scope = "listing"

\* C39: for the same snapshot, start and duration, with no buffers, no staff
\* selection, no break blocks and no studio associations, the instructors the
\* listing reports as available are the instructors the booking resolver accepts.
C39_ListingAgrees ==
    Listed => Range(verdict.listing) = Range(verdict.resolver)

\* With times written without an offset, the listing leaves out no instructor
\* the resolver accepts, and the two differ only by instructors whose shift
\* ends before the proposed window does
ListingCoversResolver ==
    Listed /\ ~probe.aware =>
        /\ Range(verdict.resolver) \subseteq Range(verdict.listing)
        /\ \A i \in Range(verdict.listing) \ Range(verdict.resolver) :
              \E k \in DOMAIN probe.schedule.shift_instructor :
                  /\ probe.schedule.shift_instructor[k].instructor_id = i
                  /\ probe.schedule.shift_instructor[k].end_at.t
                       < probe.start_at + probe.minutes

\* With times written with an offset, the listing reports nobody
ListingEmptyWhenAware ==
    Listed /\ probe.aware => verdict.listing = <<>>

====
